---- MODULE Spec2Model ----
(***************************************************************************)
(* Model of the particle engine (src/src/windy.ts, src/src/irregularGrid.ts)*)
(* and of the Leaflet layers that drive it (src/src/L.VelocityLayer.ts,     *)
(* src/src/L.CanvasLayer.ts).                                               *)
(*                                                                         *)
(* JavaScript runs every handler to completion; a handler is one action,   *)
(* except the animation tick, which is split into its steps (frame, one    *)
(* evolve step per particle, draw) with `pc` holding the position of the   *)
(* running tick.  No other handler is enabled while pc # "idle".           *)
(*                                                                         *)
(* Conventions: an optional JavaScript value (undefined / null / absent    *)
(* key) is None == <<>>, a present value v is Some(v) == <<v>>.  A         *)
(* non-integer number is a pair <<n, d>> standing for n/d.  Times are      *)
(* integer milliseconds, as Date.getTime() returns them.                   *)
(***************************************************************************)
EXTENDS Integers, Sequences, FiniteSets, TLC

(***************************************************************************)
(* Bounds of the model                                                     *)
(***************************************************************************)
\* the clock stops advancing at MaxTime milliseconds
MaxTime == 3
\* the longitude arrays of the specification SpecLongitudes have at most
\* MaxLongitudes nodes
MaxLongitudes == 3
\* the wave heights of the specification SpecWaves reach MaxWaveHeight
MaxWaveHeight == 31
\* at most MaxPending requestAnimationFrame callbacks of the engine are pending
MaxPending == 2
\* Math.random is a function of a seed drawn from 0..MaxSeed
MaxSeed == 1
\* the clock of the layer specification stops at LayerMaxTime milliseconds
LayerMaxTime == 2

(***************************************************************************)
(* Optional values, rationals, small helpers                               *)
(***************************************************************************)
None == <<>>
Some(v) == <<v>>
IsSome(o) == o # None
Val(o) == o[1]

\* JavaScript `o || dflt` for an optional number: undefined and 0 are falsy
OrNum(o, dflt) == IF o = None \/ o = Some(0) THEN dflt ELSE Val(o)
\* JavaScript `o || dflt` for an optional rational <<n, d>>
OrRat(o, dflt) == IF o = None THEN dflt ELSE IF Val(o)[1] = 0 THEN dflt ELSE Val(o)

Min2(a, b) == IF a <= b THEN a ELSE b
Max2(a, b) == IF a >= b THEN a ELSE b
SeqMin(s) == CHOOSE x \in {s[i] : i \in DOMAIN s} : \A i \in DOMAIN s : x <= s[i]
SeqMax(s) == CHOOSE x \in {s[i] : i \in DOMAIN s} : \A i \in DOMAIN s : x >= s[i]

\* Math.floor(n / d) for d > 0
FloorDiv(n, d) == n \div d
\* Math.round(n / d) for d > 0: the nearest integer, halves rounded up
RoundDiv(n, d) == (2 * n + d) \div (2 * d)
\* the least integer >= n / d, d > 0
CeilDiv(n, d) == -((-n) \div d)


Abs(a) == IF a < 0 THEN -a ELSE a
RECURSIVE GcdNat(_, _)
GcdNat(a, b) == IF b = 0 THEN a ELSE GcdNat(b, a % b)
\* greatest common divisor, 1 for Gcd(0, 0) so that it can divide
Gcd(a, b) == LET g == GcdNat(Abs(a), Abs(b)) IN IF g = 0 THEN 1 ELSE g

\* the rational n/d (d # 0) in lowest terms with a positive denominator
Rat(n, d) == LET g == Gcd(n, d)
                 sg == IF d < 0 THEN -1 ELSE 1
             IN  <<sg * (n \div g), sg * (d \div g)>>

(***************************************************************************)
(* Geographic coordinates are integers counted in units of the grid's      *)
(* tolerance EPS = 1e-6 degree, so one degree is Deg units.                *)
(***************************************************************************)
EPS == 1
Deg == 1000000

(***************************************************************************)
(* Vector (u, v, optional waveHeight).  Interpolated vectors are not       *)
(* integers: the components are numerators over the common denominator     *)
(* den > 0, reduced to lowest terms; stored data has den = 1.              *)
(***************************************************************************)
VectorOver(un, vn, whn, d) ==
    LET g0 == Gcd(Gcd(un, vn), d)
        g  == IF whn = None THEN g0 ELSE Gcd(g0, Val(whn))
    IN  [u |-> un \div g, v |-> vn \div g,
         waveHeight |-> IF whn = None THEN None ELSE Some(Val(whn) \div g),
         den |-> d \div g]

Vector(u, v, wh) == VectorOver(u, v, wh, 1)

\* new Vector(0, 0): the sentinel without a wave height
ZeroVector_noWaveHeight == Vector(0, 0, None)

ZeroVector == Vector(0, 0, Some(0))

\* the square of Vector.intensity = sqrt(u^2 + v^2), as a pair <<n, d>>
IntensitySq(w) == <<w.u * w.u + w.v * w.v, w.den * w.den>>

(***************************************************************************)
(* IrregularGrid: constructor                                              *)
(***************************************************************************)
\* the for-loop of detectDateLineCrossing from element k on
RECURSIVE CrossingScan(_, _, _, _)
CrossingScan(longitudes, k, hasPositive, hasNegative) ==
    IF k > Len(longitudes) THEN FALSE
    ELSE LET hp == hasPositive \/ longitudes[k] > 90 * Deg
             hn == hasNegative \/ longitudes[k] < -90 * Deg
         IN  IF hp /\ hn THEN TRUE ELSE CrossingScan(longitudes, k + 1, hp, hn)

\* a detection that looks for far-east longitudes only
IrregularGrid_detectDateLineCrossing_east(longitudes) ==
    /\ Len(longitudes) >= 2
    /\ \E k \in DOMAIN longitudes : longitudes[k] > 90 * Deg

IrregularGrid_detectDateLineCrossing(longitudes) ==
    IF Len(longitudes) < 2 THEN FALSE
    ELSE CrossingScan(longitudes, 1, FALSE, FALSE)

NormLongitudes(longitudes) ==
    [i \in DOMAIN longitudes |->
        IF longitudes[i] < 0 THEN longitudes[i] + 360 * Deg ELSE longitudes[i]]

RECURSIVE Unroll(_, _)
\* unrolledLongitudes[1..k] of the normalized array norm
Unroll(norm, k) ==
    IF k = 1 THEN <<norm[1]>>
    ELSE LET prev == Unroll(norm, k - 1)
             v1 == IF norm[k] + EPS < norm[k - 1] THEN norm[k] + 360 * Deg ELSE norm[k]
             v2 == IF v1 + EPS < prev[k - 1]
                   THEN v1 + 360 * Deg * CeilDiv(prev[k - 1] - v1, 360 * Deg)
                   ELSE v1
         IN  Append(prev, v2)

IrregularGrid(data, latitudes, longitudes) ==
    LET crosses == IrregularGrid_detectDateLineCrossing(longitudes)
        norm == NormLongitudes(longitudes)
    IN  [kind |-> "IrregularGrid",
         data |-> data,
         latitudes |-> latitudes,
         longitudes |-> longitudes,
         width |-> Len(longitudes),
         height |-> Len(latitudes),
         crossesIDL |-> crosses,
         latMin |-> SeqMin(latitudes),
         latMax |-> SeqMax(latitudes),
         latAscending |-> latitudes[1] <= latitudes[Len(latitudes)],
         normLongitudes |-> IF crosses THEN Some(norm) ELSE None,
         unrolledLongitudes |-> IF crosses THEN Some(Unroll(norm, Len(norm))) ELSE None,
         lonMin |-> IF crosses THEN SeqMin(norm) ELSE SeqMin(longitudes),
         lonMax |-> IF crosses THEN SeqMax(norm) ELSE SeqMax(longitudes),
         lonAscending |-> IF crosses THEN None
                          ELSE Some(longitudes[1] <= longitudes[Len(longitudes)])]


(***************************************************************************)
(* IrregularGrid.get                                                       *)
(***************************************************************************)
\* the while-loop of findBracketingIndices; indices are 0-based as in the
\* source, ascending is the comparison direction
RECURSIVE BinarySearch(_, _, _, _, _)
BinarySearch(arr, value, left, right, ascending) ==
    IF left < right - 1
    THEN LET mid == (left + right) \div 2
             mv == arr[mid + 1]
         IN  IF Abs(mv - value) <= EPS THEN Some([i0 |-> mid, i1 |-> mid])
             ELSE IF (IF ascending THEN mv < value ELSE mv > value)
                  THEN BinarySearch(arr, value, mid, right, ascending)
                  ELSE BinarySearch(arr, value, left, mid, ascending)
    ELSE Some([i0 |-> left, i1 |-> right])

\* isLat stands for the test arr === this.latitudes
IrregularGrid_findBracketingIndices(g, arr, value, normalizeForIDL, isLat) ==
    IF normalizeForIDL
    THEN LET unrolled == Val(g.unrolledLongitudes)
             sv0 == value % (360 * Deg)
             sv == IF sv0 + EPS < unrolled[1] THEN sv0 + 360 * Deg ELSE sv0
             minU == unrolled[1]
             maxU == unrolled[Len(unrolled)]
         IN  IF sv < minU - EPS \/ sv > maxU + EPS THEN None
             ELSE BinarySearch(unrolled, sv, 0, Len(unrolled) - 1, TRUE)
    ELSE LET isAscending == IF isLat THEN g.latAscending ELSE Val(g.lonAscending)
             first == arr[1]
             last == arr[Len(arr)]
             minVal == Min2(first, last)
             maxVal == Max2(first, last)
         IN  IF value < minVal - EPS \/ value > maxVal + EPS THEN None
             ELSE BinarySearch(arr, value, 0, Len(arr) - 1, isAscending)

\* Math.max(0, Math.min(1, n/d)) for a rational <<n, d>> with d > 0
Clamp01(r) == IF r[1] < 0 THEN <<0, 1>> ELSE IF r[1] > r[2] THEN <<1, 1>> ELSE r

\* JavaScript truthiness of an optional number
Truthy(o) == o # None /\ o # Some(0)

\* x and y are rationals in [0, 1]; the corners are stored vectors (den = 1)
IrregularGrid_interpolation(x, y, g00, g10, g01, g11) ==
    LET a == (x[2] - x[1]) * (y[2] - y[1])
        b == x[1] * (y[2] - y[1])
        c == (x[2] - x[1]) * y[1]
        d == x[1] * y[1]
        dd == x[2] * y[2]
        u == g00.u * a + g10.u * b + g01.u * c + g11.u * d
        v == g00.v * a + g10.v * b + g01.v * c + g11.v * d
        whSum == Val(g00.waveHeight) * a + Val(g10.waveHeight) * b
                 + Val(g01.waveHeight) * c + Val(g11.waveHeight) * d
        wh == IF Truthy(g00.waveHeight) /\ Truthy(g10.waveHeight)
                 /\ Truthy(g01.waveHeight) /\ Truthy(g11.waveHeight)
              THEN Some(IF whSum < 0 THEN 0 ELSE whSum)
              ELSE None
    IN  VectorOver(u, v, wh, dd)

\* data[k] for a 0-based index k, undefined outside the array
DataAt(data, k) == IF k + 1 \in DOMAIN data THEN Some(data[k + 1]) ELSE None

\* the query longitude taken as it comes
QueryLon_raw(g, lambda) == lambda

\* the query longitude as get uses it: brought into [0, 360) for a grid
\* flagged as crossing the date line
QueryLon(g, lambda) == IF g.crossesIDL THEN lambda % (360 * Deg) ELSE lambda

\* the quick bounds check of get
OutOfBounds(g, queryLon, phi) ==
    \/ queryLon < g.lonMin - EPS
    \/ queryLon > g.lonMax + EPS
    \/ phi < g.latMin - EPS
    \/ phi > g.latMax + EPS

\* the bracketing longitude indices of get, None when the search rejects
LonIndices(g, queryLon) ==
    IrregularGrid_findBracketingIndices(g,
        IF g.crossesIDL THEN Val(g.unrolledLongitudes) ELSE g.longitudes,
        queryLon, g.crossesIDL, FALSE)

\* the cell get blends in: the bracketing indices, the four corners and the
\* clamped weights; None where get returns the zero vector instead
IrregularGrid_cell(g, lambda, phi) ==
    LET queryLon == QueryLon(g, lambda)
    IN  IF OutOfBounds(g, queryLon, phi) THEN None
        ELSE
        LET lonIndices == LonIndices(g, queryLon)
            latIndices == IrregularGrid_findBracketingIndices(g, g.latitudes, phi, FALSE, TRUE)
        IN  IF lonIndices = None \/ latIndices = None THEN None
            ELSE
            LET lonIdx0 == Val(lonIndices).i0
                lonIdx1 == Val(lonIndices).i1
                latIdx0 == Val(latIndices).i0
                latIdx1 == Val(latIndices).i1
                g00 == DataAt(g.data, latIdx0 * g.width + lonIdx0)
                g10 == DataAt(g.data, latIdx0 * g.width + lonIdx1)
                g01 == DataAt(g.data, latIdx1 * g.width + lonIdx0)
                g11 == DataAt(g.data, latIdx1 * g.width + lonIdx1)
            IN  IF g00 = None \/ g10 = None \/ g01 = None \/ g11 = None THEN None
                ELSE
                LET l0 == g.longitudes[lonIdx0 + 1]
                    l1 == g.longitudes[lonIdx1 + 1]
                    lon0 == IF g.crossesIDL /\ l0 < 0 THEN l0 + 360 * Deg ELSE l0
                    lon1 == IF g.crossesIDL /\ l1 < 0 THEN l1 + 360 * Deg ELSE l1
                    lat0 == g.latitudes[latIdx0 + 1]
                    lat1 == g.latitudes[latIdx1 + 1]
                    tx == IF lon1 # lon0 THEN Rat(queryLon - lon0, lon1 - lon0) ELSE <<0, 1>>
                    ty == IF lat1 # lat0 THEN Rat(phi - lat0, lat1 - lat0) ELSE <<0, 1>>
                IN  Some([x |-> Clamp01(tx), y |-> Clamp01(ty),
                          g00 |-> Val(g00), g10 |-> Val(g10),
                          g01 |-> Val(g01), g11 |-> Val(g11),
                          lonIdx0 |-> lonIdx0, lonIdx1 |-> lonIdx1,
                          latIdx0 |-> latIdx0, latIdx1 |-> latIdx1])

IrregularGrid_get(g, lambda, phi) ==
    LET cell == IrregularGrid_cell(g, lambda, phi)
    IN  IF cell = None THEN ZeroVector
        ELSE IrregularGrid_interpolation(Val(cell).x, Val(cell).y, Val(cell).g00,
                                         Val(cell).g10, Val(cell).g01, Val(cell).g11)


(***************************************************************************)
(* Regular grid (grid.ts is not part of the sources: Grid and Grid.get are *)
(* modelled from the specification, section 4.1)                           *)
(***************************************************************************)
Grid(data, la1, lo1, dy, dx, ny, nx) ==
    [kind |-> "Grid", data |-> data, phi0 |-> la1, lambda0 |-> lo1,
     dPhi |-> dy, dLambda |-> dx, height |-> ny, width |-> nx, rows |-> <<>>]

\* row[i] of a row of optional vectors, for a 0-based index i
RowAt(row, i) == IF i + 1 \in DOMAIN row THEN row[i + 1] ELSE None

\* the four corners and the fractional offsets of a query on the row
\* structure built by setData: None if a row or a corner is missing
RegularCell(rows, lo1, la1, dx, dy, lambda, phi) ==
    LET m == (lambda - lo1) % (360 * Deg)
        fi == m \div dx
        n == la1 - phi
        fj == n \div dy
        row0 == IF fj + 1 \in DOMAIN rows THEN Some(rows[fj + 1]) ELSE None
        row1 == IF fj + 2 \in DOMAIN rows THEN Some(rows[fj + 2]) ELSE None
    IN  IF row0 = None THEN None
        ELSE IF RowAt(Val(row0), fi) = None \/ RowAt(Val(row0), fi + 1) = None
                \/ row1 = None THEN None
        ELSE IF RowAt(Val(row1), fi) = None \/ RowAt(Val(row1), fi + 1) = None THEN None
        ELSE Some([x |-> Rat(m % dx, dx), y |-> Rat(n % dy, dy),
                   g00 |-> Val(RowAt(Val(row0), fi)), g10 |-> Val(RowAt(Val(row0), fi + 1)),
                   g01 |-> Val(RowAt(Val(row1), fi)), g11 |-> Val(RowAt(Val(row1), fi + 1))])

Grid_get(g, lambda, phi) ==
    LET cell == RegularCell(g.rows, g.lambda0, g.phi0, g.dLambda, g.dPhi, lambda, phi)
    IN  IF cell = None THEN ZeroVector
        ELSE IrregularGrid_interpolation(Val(cell).x, Val(cell).y, Val(cell).g00,
                                         Val(cell).g10, Val(cell).g01, Val(cell).g11)

(***************************************************************************)
(* Windy.setData                                                           *)
(*                                                                         *)
(* A data set is [isArray, records, latitudes, longitudes]; a record is    *)
(* [parameterCategory, parameterNumber, header, data].                     *)
(***************************************************************************)
IsUPair(r) == <<r.parameterCategory, r.parameterNumber>> \in {<<1, 2>>, <<2, 2>>}
IsVPair(r) == <<r.parameterCategory, r.parameterNumber>> \in {<<1, 3>>, <<2, 3>>}

\* the last record of the list among those at the indices hits, which the
\* switch assigns to the variable
LastRecord(data, hits) ==
    IF ~data.isArray \/ hits = {} THEN None
    ELSE Some(data.records[CHOOSE k \in hits : \A l \in hits : l <= k])

\* the default case reached by every record, as without the breaks
IsWavePair_fallsThrough(r) == TRUE

IsWavePair(r) == ~IsUPair(r) /\ ~IsVPair(r)
UDataOf(data) == LastRecord(data, {k \in DOMAIN data.records : IsUPair(data.records[k])})
VDataOf(data) == LastRecord(data, {k \in DOMAIN data.records : IsVPair(data.records[k])})
WaveHeightOf(data) ==
    LastRecord(data, {k \in DOMAIN data.records : IsWavePair(data.records[k])})

\* the early return of setData
SetDataRejects(data) == UDataOf(data) = None \/ VDataOf(data) = None

\* one pass of uData.data.forEach(... grid.push(new Vector(...)))
PushVectors(data) ==
    LET uData == Val(UDataOf(data))
        vData == Val(VDataOf(data))
        waveHeight == WaveHeightOf(data)
    IN  [index \in DOMAIN uData.data |->
            Vector(uData.data[index], vData.data[index],
                   IF waveHeight # None THEN DataAt(Val(waveHeight).data, index - 1)
                   ELSE None)]

\* Windy.detectDateLineCrossing
Windy_detectDateLineCrossing(longitudes) ==
    IF Len(longitudes) < 2 THEN FALSE
    ELSE CrossingScan(longitudes, 1, FALSE, FALSE)

\* the 2D row structure of a regular grid
BuildRows(gridData, ni, nj, isContinuous) ==
    [j \in 1..nj |->
        LET row == [i \in 1..ni |-> DataAt(gridData, (j - 1) * ni + (i - 1))]
        IN  IF isContinuous THEN Append(row, RowAt(row, 0)) ELSE row]

\* a rejected load that drops the grid before it returns
RejectedFields_dropsGrid(cur) == [cur EXCEPT !.grid = None]

\* the fields a rejected load leaves behind: setData returns before it
\* assigns anything
RejectedFields(cur) == cur

\* the fields setData leaves behind, given the fields cur it found
SetDataFields(cur, data) ==
    IF SetDataRejects(data) THEN RejectedFields(cur)
    ELSE
    LET uData == Val(UDataOf(data))
        vectors == PushVectors(data)
    IN  IF data.latitudes # None /\ data.longitudes # None
        THEN LET longitudes == Val(data.longitudes)
                 latitudes == Val(data.latitudes)
                 width == Len(longitudes)
                 height == Len(latitudes)
                 crossesIDL == Windy_detectDateLineCrossing(longitudes)
                 minNorm == SeqMin(NormLongitudes(longitudes))
                 l0 == IF crossesIDL
                       THEN (IF minNorm > 180 * Deg THEN minNorm - 360 * Deg ELSE minNorm)
                       ELSE SeqMin(longitudes)
                 p0 == SeqMax(latitudes)
             IN  [grid |-> Some(IrregularGrid(vectors, latitudes, longitudes)),
                  isIrregularGrid |-> TRUE,
                  lambda0 |-> Some(l0),
                  phi0 |-> Some(p0),
                  ni |-> Some(width),
                  nj |-> Some(height),
                  dLambda |-> Some(IF width > 1 THEN Rat(SeqMax(longitudes) - l0, width - 1)
                                   ELSE <<1, 1>>),
                  dPhi |-> Some(IF height > 1 THEN Rat(p0 - SeqMin(latitudes), height - 1)
                                ELSE <<1, 1>>)]
        ELSE LET h == uData.header
                 gridData == vectors \o PushVectors(data)
                 isContinuous == h.nx * h.dx >= 360 * Deg
                 g == Grid(gridData, h.la1, h.lo1, h.dy, h.dx, h.ny, h.nx)
             IN  [grid |-> Some([g EXCEPT !.rows = BuildRows(gridData, h.nx, h.ny, isContinuous)]),
                  isIrregularGrid |-> FALSE,
                  lambda0 |-> Some(h.lo1),
                  phi0 |-> Some(h.la1),
                  dLambda |-> Some(<<h.dx, 1>>),
                  dPhi |-> Some(<<h.dy, 1>>),
                  ni |-> Some(h.nx),
                  nj |-> Some(h.ny)]


(***************************************************************************)
(* Options and Windy.setOptions                                            *)
(*                                                                         *)
(* An options object is a record with one optional value per key; None is  *)
(* an absent (undefined) key.                                              *)
(***************************************************************************)
NoOptions ==
    [minVelocity |-> None, maxVelocity |-> None, colorScale |-> None,
     velocityScale |-> None, particleAge |-> None, opacity |-> None,
     particleMultiplier |-> None, particlelineWidth |-> None, frameRate |-> None,
     waveMode |-> None, wavesParticlesSeparation |-> None, data |-> None]

\* the object spread {...a, ...b}
MergeOptions(a, b) == [k \in DOMAIN a |-> IF b[k] # None THEN b[k] ELSE a[k]]

\* the number of stops of the colour scales the model builds (colorScale.ts
\* is not part of the sources; the number is a bound of the model)
DefaultStopCount == 3

\* new ColorScale(min, max, scale): colorScale.ts modelled from the specification
ColorScale(min, max, scale) ==
    [min |-> min, max |-> max,
     stopCount |-> IF scale = None THEN DefaultStopCount ELSE Len(Val(scale))]

\* the fields setOptions leaves behind, given the fields cur it found
SetOptionsFields(cur, options) ==
    LET wave == options.waveMode = Some(TRUE)
    IN  [autoColorRange |-> IF options.minVelocity = None /\ options.maxVelocity = None
                            THEN TRUE ELSE cur.autoColorRange,
         colorScale |-> Some(ColorScale(OrNum(options.minVelocity, 0),
                                        OrNum(options.maxVelocity, 10),
                                        options.colorScale)),
         velocityScale |-> Some(IF wave THEN <<45, 10000>>
                                ELSE OrRat(options.velocityScale, <<1, 100>>)),
         particleAge |-> Some(IF wave THEN OrNum(options.particleAge, 200)
                              ELSE OrNum(options.particleAge, 64)),
         opacity |-> Some(OrRat(options.opacity, <<97, 100>>)),
         particleMultiplier |-> IF wave THEN OrRat(options.particleMultiplier, <<1, 7000>>)
                                ELSE OrRat(options.particleMultiplier, <<1, 300>>),
         particleLineWidth |-> Some(OrNum(options.particlelineWidth, 1)),
         frameTime |-> Some(Rat(1000, OrNum(options.frameRate, 15))),
         waveMode |-> IF wave THEN Some(TRUE) ELSE cur.waveMode,
         wavesParticlesSeparation |->
             IF wave THEN Some(OrRat(options.wavesParticlesSeparation, <<35, 10>>))
             ELSE cur.wavesParticlesSeparation]

\* the field initialisers of class Windy
WindyFieldInit ==
    [grid |-> None, isIrregularGrid |-> FALSE, lambda0 |-> None, phi0 |-> None,
     dLambda |-> None, dPhi |-> None, ni |-> None, nj |-> None]

WindyOptionInit ==
    [autoColorRange |-> FALSE, colorScale |-> None, velocityScale |-> None,
     particleAge |-> None, opacity |-> None, particleMultiplier |-> <<1, 300>>,
     particleLineWidth |-> None, frameTime |-> None, waveMode |-> None,
     wavesParticlesSeparation |-> None]

(***************************************************************************)
(* Windy.interpolate                                                       *)
(*                                                                         *)
(* The result is None for null, [kind |-> "vector", ...] for the Vector of *)
(* an irregular grid and [kind |-> "array", ...] for the array [u, v, m]   *)
(* of a regular grid, whose u and v are rationals.                         *)
(***************************************************************************)
\* floorMod(a, n) = a - n * Math.floor(a / n)
Windy_floorMod(a, n) == a - n * FloorDiv(a, n)

\* the blend of the swapped weights b and c
Windy_bilinearInterpolateVector_swapped(x, y, g00, g10, g01, g11, wave) ==
    LET a == (x[2] - x[1]) * (y[2] - y[1])
        b == x[1] * (y[2] - y[1])
        c == (x[2] - x[1]) * y[1]
        d == x[1] * y[1]
        dd == x[2] * y[2]
        u == Rat(g00.u * a + g10.u * c + g01.u * b + g11.u * d, dd)
        v == Rat(g00.v * a + g10.v * c + g01.v * b + g11.v * d, dd)
    IN  [kind |-> "array", u |-> u, v |-> v, third |-> None]

\* x and y are rationals in [0, 1); the third element is the blended wave
\* height in wave mode (None for NaN, when a corner has none) and otherwise
\* the magnitude sqrt(u * u + v * v), kept as the pair it is the magnitude of
Windy_bilinearInterpolateVector(x, y, g00, g10, g01, g11, wave) ==
    LET a == (x[2] - x[1]) * (y[2] - y[1])
        b == x[1] * (y[2] - y[1])
        c == (x[2] - x[1]) * y[1]
        d == x[1] * y[1]
        dd == x[2] * y[2]
        u == Rat(g00.u * a + g10.u * b + g01.u * c + g11.u * d, dd)
        v == Rat(g00.v * a + g10.v * b + g01.v * c + g11.v * d, dd)
        defined == /\ g00.waveHeight # None /\ g10.waveHeight # None
                   /\ g01.waveHeight # None /\ g11.waveHeight # None
        wh == Rat(Val(g00.waveHeight) * a + Val(g10.waveHeight) * b
                  + Val(g01.waveHeight) * c + Val(g11.waveHeight) * d, dd)
    IN  [kind |-> "array", u |-> u, v |-> v,
         third |-> IF wave THEN (IF defined THEN Some([waveHeight |-> wh]) ELSE None)
                   ELSE Some([magnitudeOf |-> <<u, v>>])]

\* floorMod(a, n) in double precision for a negative a nearer to 0 than half
\* the spacing of the doubles below n: Math.floor(a / n) is -1 and a + n
\* rounds to n itself
Windy_floorMod_belowZero(n) == n

\* the regular branch of interpolate from the wrapped longitude offset
\* floorMod(lambda - lambda0, 360) on, wave being this.waveMode
Windy_interpolateFrom(f, wave, wrapped, phi) ==
    LET dl == Val(f.dLambda)
        dp == Val(f.dPhi)
        \* i = m / dLambda and j = n / dPhi, as fractions over in and jn
        m == wrapped * dl[2]
        n == (Val(f.phi0) - phi) * dp[2]
        fi == FloorDiv(m, dl[1])
        ci == fi + 1
        fj == FloorDiv(n, dp[1])
        cj == fj + 1
        rows == Val(f.grid).rows
        row0 == IF fj + 1 \in DOMAIN rows THEN Some(rows[fj + 1]) ELSE None
        row1 == IF cj + 1 \in DOMAIN rows THEN Some(rows[cj + 1]) ELSE None
    IN  IF row0 = None THEN None
        ELSE IF RowAt(Val(row0), fi) = None \/ RowAt(Val(row0), ci) = None \/ row1 = None
        THEN None
        ELSE IF RowAt(Val(row1), fi) = None \/ RowAt(Val(row1), ci) = None THEN None
        ELSE Some(Windy_bilinearInterpolateVector(
                      Rat(m - fi * dl[1], dl[1]), Rat(n - fj * dp[1], dp[1]),
                      Val(RowAt(Val(row0), fi)), Val(RowAt(Val(row0), ci)),
                      Val(RowAt(Val(row1), fi)), Val(RowAt(Val(row1), ci)), wave))

\* interpolate on the fields f of the engine
Windy_interpolate(f, wave, lambda, phi) ==
    IF f.grid = None THEN None
    ELSE IF f.isIrregularGrid
    THEN Some([kind |-> "vector", vector |-> IrregularGrid_get(Val(f.grid), lambda, phi)])
    ELSE Windy_interpolateFrom(f, wave,
                               Windy_floorMod(lambda - Val(f.lambda0), 360 * Deg), phi)

(***************************************************************************)
(* Layer, CanvasBound, MapBound, Particule, AnimationBucket: these classes *)
(* are not part of the sources and are modelled from the specification     *)
(* (sections 3, 4.3, 4.4, 4.5).                                            *)
(***************************************************************************)
\* new Layer(new MapBound(...), new CanvasBound(0, 0, size.x, size.y))
Layer(view) ==
    [mapBound |-> [north |-> view.north, east |-> view.east,
                   south |-> view.south, west |-> view.west],
     canvasBound |-> [xMin |-> 0, yMin |-> 0, width |-> view.width, height |-> view.height]]

\* Layer.canvasToMap: the pixel (x, y) as <<longitude, latitude>>
Layer_canvasToMap(layer, x, y) ==
    <<layer.mapBound.west
        + (x * (layer.mapBound.east - layer.mapBound.west)) \div layer.canvasBound.width,
      layer.mapBound.north
        - (y * (layer.mapBound.north - layer.mapBound.south)) \div layer.canvasBound.height>>

\* Math.random() is modelled by a seed: the k-th draw of an integer of 0..n-1
RandomInt(seed, k, n) == (seed + k) % n

\* CanvasBound.getRandomParticule(maxAge): a random pixel and a random age
CanvasBound_getRandomParticule(cb, maxAge, seed, k) ==
    [x |-> cb.xMin + RandomInt(seed, k, cb.width),
     y |-> cb.yMin + RandomInt(seed, k, cb.height),
     xt |-> cb.xMin + RandomInt(seed, k, cb.width),
     yt |-> cb.yMin + RandomInt(seed, k, cb.height),
     age |-> RandomInt(seed, k, maxAge + 1), maxAge |-> maxAge,
     intensity |-> None, waveHeight |-> None]

\* CanvasBound.resetParticule(p): a fresh random pixel, age 0
CanvasBound_resetParticule(cb, p, seed, k) ==
    [p EXCEPT !.x = cb.xMin + RandomInt(seed, k, cb.width),
              !.y = cb.yMin + RandomInt(seed, k, cb.height),
              !.age = 0]

\* Particule.grow and Particule.isDead
Particule_grow(p) == [p EXCEPT !.age = @ + 1]
Particule_isDead(p) == p.age >= p.maxAge

Sgn(n) == IF n > 0 THEN 1 ELSE IF n < 0 THEN -1 ELSE 0

\* Layer.distort: the target pixel of a particle at (x, y) under wind; the
\* displacement is one pixel in the direction of each wind component
Layer_distort(x, y, wind) == <<x + Sgn(wind.u), y - Sgn(wind.v)>>

\* ColorScale.getColorIndex for an intensity given by its square <<n, d>>:
\* the index of the last stop not above the intensity, within 0..stopCount-1
ColorScale_getColorIndex(cs, isq) ==
    LET last == cs.stopCount - 1
        Reached(k) ==
            \* cs.min + k * (cs.max - cs.min) / last <= sqrt(isq)
            LET tn == cs.min * last + k * (cs.max - cs.min)
            IN  tn <= 0 \/ tn * tn * isq[2] <= isq[1] * last * last
    IN  IF last <= 0 \/ ~Reached(1) THEN 0
        ELSE CHOOSE k \in 1..last : Reached(k) /\ (k = last \/ ~Reached(k + 1))

\* new AnimationBucket(colorScale), AnimationBucket.clear: one empty list per stop
EmptyBuckets(cs) == [i \in 1..cs.stopCount |-> <<>>]

\* AnimationBucket.add: the particle (its index in the pool) joins the bucket
\* of its intensity
AnimationBucket_add(buckets, cs, isq, k) ==
    LET index == ColorScale_getColorIndex(cs, isq)
    IN  [buckets EXCEPT ![index + 1] = Append(@, k)]


(***************************************************************************)
(* Rational arithmetic on pairs <<n, d>>, d > 0                            *)
(***************************************************************************)
RAdd(r, s) == Rat(r[1] * s[2] + s[1] * r[2], r[2] * s[2])
RSub(r, s) == Rat(r[1] * s[2] - s[1] * r[2], r[2] * s[2])
RLess(r, s) == r[1] * s[2] < s[1] * r[2]
\* r * k for an integer k
RScale(r, k) == Rat(r[1] * k, r[2])
\* Math.floor(r / s) for s > 0
RFloorQuot(r, s) == (r[1] * s[2]) \div (r[2] * s[1])
\* the JavaScript remainder r % s for r >= 0, s > 0
RMod(r, s) == RSub(r, RScale(s, RFloorQuot(r, s)))

(***************************************************************************)
(* State                                                                   *)
(***************************************************************************)
VARIABLES
    \* Windy: the field
    grid, isIrregularGrid, lambda0, phi0, dLambda, dPhi, ni, nj,
    \* Windy: the options
    colorScale, velocityScale, particleMultiplier, particleAge, particleLineWidth,
    autoColorRange, opacity, waveMode, wavesParticlesSeparation, frameTime,
    \* Windy: the animation
    layer,            \* this.layer: None before the first start
    particules,       \* the particle pool
    animationBucket,  \* None before the first start, else Some(list of buckets),
                      \* a bucket being a list of indices into the pool
    animationLoop,    \* the stored requestAnimationFrame handle, 0 for null
    then,             \* the reference time, a rational number of milliseconds
    \* the running tick
    pc,               \* "idle", or "evolve" while a tick callback is executing
    cursor,           \* the index of the particle evolve handles next
    \* the host
    now,                \* Date.getTime()
    pendingFrames,      \* the handles of the engine's pending frame callbacks
    particuleReduction, \* the user agent's factor in particuleCount
    mapView,            \* the map's bounds and size
    gesture,            \* "none", "drag" or "zoom"
    \* VelocityLayer
    options,          \* this.options
    windy,            \* this._windy # null
    context,          \* this._context # null
    displayTimeout,   \* the timer of this._displayTimeout is pending
    mapEvents,        \* the handlers of this._mapEvents are bound to the map
    onMap,            \* the layer is on the map
    \* CanvasLayer
    canvasMap,        \* this._map # null
    canvasFrame,      \* this._frame # null
    framePending,     \* the frame requested by needRedraw is pending
    deferredMove,     \* the setTimeout(onLayerDidMove, 0) of onAdd is pending
    \* history
    phase,            \* "Idle" until the first start, "Running" after a start,
                      \* "Stopped" after a stop
    lastOp            \* the handler or step that ran last, whether it called
                      \* start or stop, and the size of the pool it found

fieldVars == <<grid, isIrregularGrid, lambda0, phi0, dLambda, dPhi, ni, nj>>
optionVars == <<colorScale, velocityScale, particleMultiplier, particleAge,
                particleLineWidth, autoColorRange, opacity, waveMode,
                wavesParticlesSeparation, frameTime>>
animVars == <<layer, particules, animationBucket, animationLoop, then, pendingFrames>>
tickVars == <<pc, cursor>>
hostVars == <<now, particuleReduction, mapView, gesture>>
layerVars == <<options, windy, context, displayTimeout, mapEvents, onMap>>
canvasVars == <<canvasMap, canvasFrame, framePending, deferredMove>>
vars == <<fieldVars, optionVars, animVars, tickVars, hostVars, layerVars, canvasVars,
          phase, lastOp>>

Fields ==
    [grid |-> grid, isIrregularGrid |-> isIrregularGrid, lambda0 |-> lambda0,
     phi0 |-> phi0, dLambda |-> dLambda, dPhi |-> dPhi, ni |-> ni, nj |-> nj]

WindyOptionFields ==
    [autoColorRange |-> autoColorRange, colorScale |-> colorScale,
     velocityScale |-> velocityScale, particleAge |-> particleAge, opacity |-> opacity,
     particleMultiplier |-> particleMultiplier, particleLineWidth |-> particleLineWidth,
     frameTime |-> frameTime, waveMode |-> waveMode,
     wavesParticlesSeparation |-> wavesParticlesSeparation]

\* the primed field variables are those of the record f
FieldsBecome(f) ==
    /\ grid' = f.grid
    /\ isIrregularGrid' = f.isIrregularGrid
    /\ lambda0' = f.lambda0
    /\ phi0' = f.phi0
    /\ dLambda' = f.dLambda
    /\ dPhi' = f.dPhi
    /\ ni' = f.ni
    /\ nj' = f.nj

\* the primed option variables are those of the record o
OptionsBecome(o) ==
    /\ autoColorRange' = o.autoColorRange
    /\ colorScale' = o.colorScale
    /\ velocityScale' = o.velocityScale
    /\ particleAge' = o.particleAge
    /\ opacity' = o.opacity
    /\ particleMultiplier' = o.particleMultiplier
    /\ particleLineWidth' = o.particleLineWidth
    /\ frameTime' = o.frameTime
    /\ waveMode' = o.waveMode
    /\ wavesParticlesSeparation' = o.wavesParticlesSeparation


(***************************************************************************)
(* Inputs                                                                  *)
(***************************************************************************)
Header(la1, lo1, dx, dy, nx, ny) ==
    [la1 |-> la1, lo1 |-> lo1, dx |-> dx, dy |-> dy, nx |-> nx, ny |-> ny]

Record(cat, num, header, data) ==
    [parameterCategory |-> cat, parameterNumber |-> num, header |-> header, data |-> data]

\* a 2 x 2 grid with its origin at 1 degree north, 0 degrees east, one degree apart
SmallHeader == Header(1 * Deg, 0, 1 * Deg, 1 * Deg, 2, 2)
URecord == Record(2, 2, SmallHeader, <<3, 0, 0, 3>>)
VRecord == Record(2, 3, SmallHeader, <<4, 0, 0, 4>>)

RegularData ==
    [isArray |-> TRUE, records |-> <<URecord, VRecord>>,
     latitudes |-> None, longitudes |-> None]
IrregularData ==
    [isArray |-> TRUE, records |-> <<URecord, VRecord>>,
     latitudes |-> Some(<<1 * Deg, 0>>), longitudes |-> Some(<<0, 1 * Deg>>)]
\* a list without a v-component record
NoVData ==
    [isArray |-> TRUE, records |-> <<URecord>>,
     latitudes |-> None, longitudes |-> None]
\* a list without a u-component record
NoUData ==
    [isArray |-> TRUE, records |-> <<VRecord>>,
     latitudes |-> Some(<<1 * Deg, 0>>), longitudes |-> Some(<<0, 1 * Deg>>)]

DataSets == {RegularData, IrregularData, NoVData, NoUData}
\* the data sets the layer specification loads
LayerDataSets == {IrregularData, NoVData}

(***************************************************************************)
(* Grids and queries of the sampling specification SpecGrid                *)
(***************************************************************************)
IrregularSet(records, latitudes, longitudes) ==
    [isArray |-> TRUE, records |-> records,
     latitudes |-> Some(latitudes), longitudes |-> Some(longitudes)]

RegularSet(records) ==
    [isArray |-> TRUE, records |-> records, latitudes |-> None, longitudes |-> None]

\* three columns and two rows with wave heights, one of them 0, two negative
WaveGrid ==
    IrregularSet(<<Record(2, 2, SmallHeader, <<1, 2, 3, 0, 1, 2>>),
                   Record(2, 3, SmallHeader, <<0, 1, 0, 2, 2, 1>>),
                   Record(0, 3, SmallHeader, <<2, 1, -4, 0, 3, -4>>)>>,
                 <<1 * Deg, 0>>, <<0, 1 * Deg, 2 * Deg>>)

\* four columns stepping east across the antimeridian; the wave record is
\* two values short
DateLineGrid ==
    IrregularSet(<<Record(2, 2, SmallHeader, <<1, 2, 3, 1, 0, 1, 2, 3>>),
                   Record(2, 3, SmallHeader, <<3, 2, 1, 0, 1, 1, 2, 2>>),
                   Record(10, 3, SmallHeader, <<1, 2, 3, 4, 1, 2>>)>>,
                 <<1 * Deg, 0>>, <<170 * Deg, 179 * Deg, -179 * Deg, -170 * Deg>>)

\* one row, two columns either side of the antimeridian
DateLinePair ==
    IrregularSet(<<Record(2, 2, SmallHeader, <<1, 3>>),
                   Record(2, 3, SmallHeader, <<2, 0>>)>>,
                 <<0>>, <<179 * Deg, -179 * Deg>>)

\* the scenario of the specification: 170 and -170, two rows
DateLineWide ==
    IrregularSet(<<Record(2, 2, SmallHeader, <<1, 3, 2, 0>>),
                   Record(2, 3, SmallHeader, <<2, 0, 1, 1>>)>>,
                 <<10 * Deg, 0>>, <<170 * Deg, -170 * Deg>>)

\* ascending longitudes from -170 to 170 through 0: flagged as crossing
\* although no step crosses the antimeridian
WorldGrid ==
    IrregularSet(<<Record(2, 2, SmallHeader, <<1, 2, 3, 3, 2, 1>>),
                   Record(2, 3, SmallHeader, <<1, 0, 1, 0, 1, 0>>)>>,
                 <<1 * Deg, 0>>, <<-170 * Deg, 0, 170 * Deg>>)

\* descending longitudes, ascending latitudes
DescendingGrid ==
    IrregularSet(<<URecord, VRecord>>, <<0, 1 * Deg>>, <<1 * Deg, 0>>)

\* the regular 2 x 2 scenario of the specification
ScenarioHeader == Header(10 * Deg, 0, 10 * Deg, 10 * Deg, 2, 2)
ScenarioGrid ==
    RegularSet(<<Record(2, 2, ScenarioHeader, <<1, 0, 1, 0>>),
                 Record(2, 3, ScenarioHeader, <<0, 1, 1, 0>>)>>)

\* a regular grid whose two columns span 360 degrees
GlobeHeader == Header(1 * Deg, 0, 180 * Deg, 1 * Deg, 2, 2)
GlobeGrid ==
    RegularSet(<<Record(1, 2, GlobeHeader, <<1, 2, 3, 0>>),
                 Record(1, 3, GlobeHeader, <<0, 1, 2, 3>>)>>)

\* record lists in other orders: the wave record first, two u records, a
\* wave record only, and something that is no array
WaveFirst ==
    RegularSet(<<Record(0, 0, SmallHeader, <<5, 6, 7, 8>>),
                 Record(1, 2, SmallHeader, <<1, 2, 3, 0>>),
                 Record(1, 3, SmallHeader, <<0, 1, 2, 3>>)>>)
TwoURecords ==
    IrregularSet(<<Record(2, 2, SmallHeader, <<1, 1, 1, 1>>),
                   Record(1, 2, SmallHeader, <<2, 3, 2, 3>>),
                   Record(2, 3, SmallHeader, <<0, 1, 2, 3>>),
                   Record(2, 1, SmallHeader, <<6, 7, 8, 9>>),
                   Record(3, 3, SmallHeader, <<9, 8, 7, 6>>)>>,
                 <<1 * Deg, 0>>, <<0, 1 * Deg>>)
WaveOnly == RegularSet(<<Record(0, 3, SmallHeader, <<5, 6, 7, 8>>)>>)
NoArray == [RegularData EXCEPT !.isArray = FALSE]

GridDataSets ==
    {RegularData, IrregularData, NoVData, NoUData, WaveGrid, DateLineGrid, DateLinePair,
     DateLineWide, WorldGrid, DescendingGrid, ScenarioGrid, GlobeGrid, WaveFirst,
     TwoURecords, WaveOnly, NoArray}

\* query longitudes, in both conventions, and query latitudes: nodes, points
\* of cells, and points within and beyond the tolerance of the bounds
HalfDeg == Deg \div 2
QueryLongitudes ==
    {-2 * EPS, -EPS, 0, HalfDeg, 1 * Deg, 1 * Deg + EPS, 1 * Deg + 2 * EPS, 2 * Deg,
     5 * Deg, 10 * Deg, 170 * Deg, 179 * Deg, 179 * Deg + HalfDeg, 180 * Deg,
     180 * Deg + HalfDeg, 181 * Deg, 190 * Deg, -179 * Deg - HalfDeg, -179 * Deg,
     -170 * Deg}
QueryLatitudes == {-2 * EPS, -EPS, 0, HalfDeg, 1 * Deg, 5 * Deg, 10 * Deg}

\* longitude arrays of up to MaxLongitudes nodes in any order, each with two
\* rows of data whose u component numbers the nodes; the queries lie between
\* the nodes
LongitudeValues ==
    {-180 * Deg, -170 * Deg, -100 * Deg, -90 * Deg, 0, 90 * Deg, 100 * Deg, 170 * Deg,
     180 * Deg}
LongitudeArrays == UNION {[1..n -> LongitudeValues] : n \in 1..MaxLongitudes}
LongitudeSet(longitudes) ==
    IrregularSet(<<Record(2, 2, SmallHeader, [k \in 1..(2 * Len(longitudes)) |-> k]),
                   Record(2, 3, SmallHeader, [k \in 1..(2 * Len(longitudes)) |-> 1])>>,
                 <<1 * Deg, 0>>, longitudes)
LongitudeQueries ==
    {-175 * Deg, -135 * Deg, -50 * Deg, 50 * Deg, 135 * Deg, 175 * Deg, 225 * Deg}

\* the wave heights of the particles drawn in wave mode: undefined, or
\* tenths from -0.5 to MaxWaveHeight
WaveHeights == {None} \cup {Some(<<t, 10>>) : t \in (-5)..(10 * MaxWaveHeight)}

\* the options a client constructs or configures an engine with: the
\* velocity range not supplied, supplied in part or in full; wave mode off,
\* on with its defaults, or on with the caller's own values; with or without data
VelocityRanges ==
    {[minVelocity |-> None, maxVelocity |-> None],
     [minVelocity |-> Some(2), maxVelocity |-> None],
     [minVelocity |-> None, maxVelocity |-> Some(5)],
     [minVelocity |-> Some(1), maxVelocity |-> Some(5)]}
WaveChoices ==
    {[waveMode |-> None, velocityScale |-> None, particleMultiplier |-> None,
      particleAge |-> None],
     [waveMode |-> Some(TRUE), velocityScale |-> None, particleMultiplier |-> None,
      particleAge |-> None],
     [waveMode |-> Some(TRUE), velocityScale |-> Some(<<1, 50>>),
      particleMultiplier |-> Some(<<1, 2>>), particleAge |-> Some(3)],
     [waveMode |-> Some(FALSE), velocityScale |-> Some(<<1, 50>>),
      particleMultiplier |-> Some(<<1, 2>>), particleAge |-> Some(3)]}
ClientData == {None, Some(ScenarioGrid), Some(WaveGrid), Some(NoVData)}
ClientOptions ==
    {[NoOptions EXCEPT !.minVelocity = r.minVelocity, !.maxVelocity = r.maxVelocity,
                       !.waveMode = w.waveMode, !.velocityScale = w.velocityScale,
                       !.particleMultiplier = w.particleMultiplier,
                       !.particleAge = w.particleAge, !.data = d] :
        r \in VelocityRanges, w \in WaveChoices, d \in ClientData}

\* the map's geographic bounds and pixel size
View(north, east, south, west, width, height) ==
    [north |-> north, east |-> east, south |-> south, west |-> west,
     width |-> width, height |-> height]
MapViews == {View(1 * Deg, 2 * Deg, 0, 0, 2, 1), View(1 * Deg, 3 * Deg, 0, 0, 3, 1)}

\* the options a VelocityLayer is constructed with: the defaults of its
\* constructor merged with the caller's
LayerDefaults ==
    [NoOptions EXCEPT !.waveMode = Some(FALSE), !.maxVelocity = Some(10)]
CallerOptions ==
    {[NoOptions EXCEPT !.particleMultiplier = Some(<<1, 2>>), !.particleAge = Some(2),
                       !.frameRate = Some(2000), !.data = d] :
        d \in {None, Some(IrregularData), Some(NoVData)}}
\* the partial options VelocityLayer.setOptions is called with
PartialOptions ==
    {[NoOptions EXCEPT !.frameRate = Some(500), !.particleMultiplier = Some(<<1, 2>>),
                       !.particleAge = Some(1)],
     [NoOptions EXCEPT !.data = Some(RegularData)]}

(***************************************************************************)
(* Windy: start, stop, setData, setOptions                                 *)
(***************************************************************************)
\* the handle requestAnimationFrame returns: one that no pending callback has
FreshHandle(pending) == CHOOSE h \in 1..(Cardinality(pending) + 1) : h \notin pending

\* get particuleCount(): Math.round(width * height * particleMultiplier) * reduction
Windy_particuleCount(l, multiplier, reduction) ==
    RScale(reduction,
           RoundDiv(l.canvasBound.width * l.canvasBound.height * multiplier[1],
                    multiplier[2]))

\* the number of iterations of for (i = 0; i < count; i++)
LoopCount(count) == Max2(0, CeilDiv(count[1], count[2]))

Windy_setData(data) == FieldsBecome(SetDataFields(Fields, data))

Windy_setOptions(o) == OptionsBecome(SetOptionsFields(WindyOptionFields, o))

\* start() without the splice of the pool: the new particles join the old
Windy_start_appends(l, seed) ==
    LET n == LoopCount(Windy_particuleCount(l, particleMultiplier', particuleReduction))
        h == FreshHandle(pendingFrames)
    IN  /\ layer' = Some(l)
        /\ animationBucket' = Some(EmptyBuckets(Val(colorScale')))
        /\ particules' = particules \o
                            [k \in 1..n |->
                                CanvasBound_getRandomParticule(l.canvasBound,
                                                               Val(particleAge'), seed, k)]
        /\ then' = <<now, 1>>
        /\ animationLoop' = h
        /\ pendingFrames' = pendingFrames \cup {h}

\* start reads the options as the handler that calls it has left them
Windy_start(l, seed) ==
    LET n == LoopCount(Windy_particuleCount(l, particleMultiplier', particuleReduction))
        h == FreshHandle(pendingFrames)
    IN  /\ layer' = Some(l)
        /\ animationBucket' = Some(EmptyBuckets(Val(colorScale')))
        /\ particules' = [k \in 1..n |->
                            CanvasBound_getRandomParticule(l.canvasBound,
                                                           Val(particleAge'), seed, k)]
        /\ then' = <<now, 1>>
        \* this.frame(): delta is 0 and frameTime is positive, so only the
        \* callback is registered
        /\ animationLoop' = h
        /\ pendingFrames' = pendingFrames \cup {h}

\* stop() without the splice of the pool
Windy_stop_keepsPool ==
    /\ UNCHANGED particules
    /\ animationBucket' = IF animationBucket = None THEN None
                          ELSE Some([i \in DOMAIN Val(animationBucket) |-> <<>>])
    /\ IF animationLoop # 0
       THEN /\ pendingFrames' = pendingFrames \ {animationLoop}
            /\ animationLoop' = 0
       ELSE UNCHANGED <<pendingFrames, animationLoop>>
    /\ UNCHANGED <<layer, then>>

Windy_stop ==
    /\ particules' = <<>>
    /\ animationBucket' = IF animationBucket = None THEN None
                          ELSE Some([i \in DOMAIN Val(animationBucket) |-> <<>>])
    /\ IF animationLoop # 0
       THEN /\ pendingFrames' = pendingFrames \ {animationLoop}
            /\ animationLoop' = 0
       ELSE UNCHANGED <<pendingFrames, animationLoop>>
    /\ UNCHANGED <<layer, then>>


(***************************************************************************)
(* Windy: the tick (frame, evolve, draw)                                   *)
(***************************************************************************)
Op(name, started, stopped) ==
    [name |-> name, started |-> started, stopped |-> stopped,
     before |-> IF started \/ stopped THEN Len(particules) ELSE 0, pairs |-> <<>>,
     out |-> <<>>]

\* the (parameterCategory, parameterNumber) pairs of a data set's records
Pairs(data) ==
    [k \in DOMAIN data.records |->
        <<data.records[k].parameterCategory, data.records[k].parameterNumber>>]

\* the record of a handler of the layers
Handler(started, stopped) == Op("handler", started, stopped)

(***************************************************************************)
(* Windy.drawWaves: the fan of offset segments of a particle               *)
(*                                                                         *)
(* Wave heights and offsets are fractions <<n, d>>, d > 0.                 *)
(***************************************************************************)
\* calculateWaveParticles(waveHeight)
Windy_calculateWaveParticles(waveHeight) ==
    IF RLess(waveHeight, <<1, 2>>) THEN 4
    ELSE IF RLess(waveHeight, <<7, 10>>) THEN 5
    ELSE IF RLess(waveHeight, <<1, 1>>) THEN 6
    ELSE IF RLess(waveHeight, <<3, 2>>) THEN 7
    ELSE IF RLess(waveHeight, <<2, 1>>) THEN 8
    ELSE IF RLess(waveHeight, <<5, 2>>) THEN 9
    ELSE IF RLess(waveHeight, <<3, 1>>) THEN 10
    ELSE IF RLess(waveHeight, <<4, 1>>) THEN 10
    ELSE IF RLess(waveHeight, <<10, 1>>) THEN 11
    ELSE IF RLess(waveHeight, <<20, 1>>) THEN 12
    ELSE IF RLess(waveHeight, <<30, 1>>) THEN 13
    ELSE 14

\* the for-loop of generateOffsets from i = i2 / 2 on, up to nd2 / 2
RECURSIVE OffsetsLoop(_, _, _)
OffsetsLoop(i2, nd2, offsets) ==
    IF i2 <= nd2 THEN OffsetsLoop(i2 + 2, nd2, Append(offsets, <<i2, 2>>)) ELSE offsets

\* generateOffsets(count): numDivisions = (count - 1) / 2
Windy_generateOffsets(count) == OffsetsLoop(-(count - 1), count - 1, <<>>)

\* the offsets drawWaves takes for a particle: particle.waveHeight || 1
Windy_waveOffsets(waveHeight) ==
    Windy_generateOffsets(Windy_calculateWaveParticles(OrRat(waveHeight, <<1, 1>>)))

\* the test of frame() without the throttle: delta >= 0
FrameWorks_unthrottled(delta, ft) == ~RLess(delta, <<0, 1>>)

\* the test of frame(): delta > this.frameTime
FrameWorks(delta, ft) == RLess(ft, delta)

\* a tick whose evolve does not clear the buckets
FrameFires_keepsBuckets(h) ==
    /\ pc = "idle"
    /\ h \in pendingFrames
    /\ LET rest == pendingFrames \ {h}
           h2 == FreshHandle(rest)
           delta == RSub(<<now, 1>>, then)
       IN  /\ pendingFrames' = rest \cup {h2}
           /\ animationLoop' = h2
           /\ IF FrameWorks(delta, Val(frameTime))
              THEN /\ then' = RSub(<<now, 1>>, RMod(delta, Val(frameTime)))
                   /\ UNCHANGED animationBucket
                   /\ pc' = "evolve"
                   /\ cursor' = 1
                   /\ lastOp' = Op("frameWork", FALSE, FALSE)
              ELSE /\ UNCHANGED <<then, animationBucket, pc, cursor>>
                   /\ lastOp' = Op("frame", FALSE, FALSE)
    /\ UNCHANGED <<fieldVars, optionVars, layer, particules, hostVars, layerVars,
                   canvasVars, phase>>

\* a pending callback fires: frame() registers the next callback, measures
\* the elapsed time and, when it works, enters evolve (which first clears
\* the buckets)
FrameFires(h) ==
    /\ pc = "idle"
    /\ h \in pendingFrames
    /\ LET rest == pendingFrames \ {h}
           h2 == FreshHandle(rest)
           delta == RSub(<<now, 1>>, then)
       IN  /\ pendingFrames' = rest \cup {h2}
           /\ animationLoop' = h2
           /\ IF FrameWorks(delta, Val(frameTime))
              THEN /\ then' = RSub(<<now, 1>>, RMod(delta, Val(frameTime)))
                   /\ animationBucket' = Some([i \in DOMAIN Val(animationBucket) |-> <<>>])
                   /\ pc' = "evolve"
                   /\ cursor' = 1
                   /\ lastOp' = Op("frameWork", FALSE, FALSE)
              ELSE /\ UNCHANGED <<then, animationBucket, pc, cursor>>
                   /\ lastOp' = Op("frame", FALSE, FALSE)
    /\ UNCHANGED <<fieldVars, optionVars, layer, particules, hostVars, layerVars,
                   canvasVars, phase>>

\* the longitude wrapped into [-180, 180)
WrapLongitude(lambda) == ((lambda + 180 * Deg) % (360 * Deg)) - 180 * Deg

\* this.grid.get(lambda, phi) for the grid g
GridGet(g, lambda, phi) ==
    IF g.kind = "IrregularGrid" THEN IrregularGrid_get(g, lambda, phi)
    ELSE Grid_get(g, lambda, phi)

\* getParticuleWind and animationBucket.add for the particle p
Sampled(p, wind) ==
    LET target == Layer_distort(p.x, p.y, wind)
    IN  [p EXCEPT !.intensity = Some(IntensitySq(wind)), !.waveHeight = wind.waveHeight,
                  !.xt = target[1], !.yt = target[2]]

\* the body of the forEach of evolve without the reset of a dead particle
EvolveStep_noReset(seed) ==
    /\ pc = "evolve"
    /\ cursor <= Len(particules)
    /\ LET p == Particule_grow(particules[cursor])
           lngLat == Layer_canvasToMap(Val(layer), p.x, p.y)
       IN  /\ Particule_isDead(p) \/ seed = 0
           /\ IF grid = None
              THEN /\ particules' = [particules EXCEPT ![cursor] = p]
                   /\ pc' = "idle"
                   /\ cursor' = 0
                   /\ lastOp' = Op("throw", FALSE, FALSE)
                   /\ UNCHANGED animationBucket
              ELSE LET wind == GridGet(Val(grid), WrapLongitude(lngLat[1]), lngLat[2])
                   IN  /\ particules' = [particules EXCEPT ![cursor] = Sampled(p, wind)]
                       /\ animationBucket' =
                              Some(AnimationBucket_add(Val(animationBucket),
                                                       Val(colorScale), IntensitySq(wind),
                                                       cursor))
                       /\ pc' = "evolve"
                       /\ cursor' = cursor + 1
                       /\ lastOp' = Op("evolve", FALSE, FALSE)
    /\ UNCHANGED <<fieldVars, optionVars, layer, animationLoop, then, pendingFrames,
                   hostVars, layerVars, canvasVars, phase>>

\* the body of the forEach of evolve for the particle at the cursor; without
\* a grid this.grid.get throws and the exception ends the callback
EvolveStep(seed) ==
    /\ pc = "evolve"
    /\ cursor <= Len(particules)
    /\ LET cb == Val(layer).canvasBound
           grown == Particule_grow(particules[cursor])
           dead == Particule_isDead(grown)
           p == IF dead THEN CanvasBound_resetParticule(cb, grown, seed, cursor) ELSE grown
           lngLat == Layer_canvasToMap(Val(layer), p.x, p.y)
       IN  /\ dead \/ seed = 0
           /\ IF grid = None
              THEN /\ particules' = [particules EXCEPT ![cursor] = p]
                   /\ pc' = "idle"
                   /\ cursor' = 0
                   /\ lastOp' = Op("throw", FALSE, FALSE)
                   /\ UNCHANGED animationBucket
              ELSE LET wind == GridGet(Val(grid), WrapLongitude(lngLat[1]), lngLat[2])
                   IN  /\ particules' = [particules EXCEPT ![cursor] = Sampled(p, wind)]
                       /\ animationBucket' =
                              Some(AnimationBucket_add(Val(animationBucket),
                                                       Val(colorScale), IntensitySq(wind),
                                                       cursor))
                       /\ pc' = "evolve"
                       /\ cursor' = cursor + 1
                       /\ lastOp' = Op("evolve", FALSE, FALSE)
    /\ UNCHANGED <<fieldVars, optionVars, layer, animationLoop, then, pendingFrames,
                   hostVars, layerVars, canvasVars, phase>>

InBucket(buckets, k) == \E i \in DOMAIN buckets : \E j \in DOMAIN buckets[i] : buckets[i][j] = k

\* draw() entered from inside the forEach of evolve, after any particle
Draw_early ==
    /\ pc = "evolve"
    /\ cursor > 1
    /\ particules' = [k \in DOMAIN particules |->
                        IF InBucket(Val(animationBucket), k)
                        THEN [particules[k] EXCEPT !.x = particules[k].xt,
                                                   !.y = particules[k].yt]
                        ELSE particules[k]]
    /\ pc' = "idle"
    /\ cursor' = 0
    /\ lastOp' = Op("draw", FALSE, FALSE)
    /\ UNCHANGED <<fieldVars, optionVars, layer, animationBucket, animationLoop, then,
                   pendingFrames, hostVars, layerVars, canvasVars, phase>>

\* draw(): every bucketed particle is drawn from its position to its target
\* and moves there
Draw ==
    /\ pc = "evolve"
    /\ cursor > Len(particules)
    /\ particules' = [k \in DOMAIN particules |->
                        IF InBucket(Val(animationBucket), k)
                        THEN [particules[k] EXCEPT !.x = particules[k].xt,
                                                   !.y = particules[k].yt]
                        ELSE particules[k]]
    /\ pc' = "idle"
    /\ cursor' = 0
    /\ lastOp' = Op("draw", FALSE, FALSE)
    /\ UNCHANGED <<fieldVars, optionVars, layer, animationBucket, animationLoop, then,
                   pendingFrames, hostVars, layerVars, canvasVars, phase>>

\* time passes between handlers, up to the millisecond max
ClockTick(max) ==
    /\ pc = "idle"
    /\ now < max
    /\ now' = now + 1
    /\ lastOp' = Op("clock", FALSE, FALSE)
    /\ UNCHANGED <<fieldVars, optionVars, animVars, tickVars, particuleReduction, mapView,
                   gesture, layerVars, canvasVars, phase>>


(***************************************************************************)
(* VelocityLayer                                                           *)
(***************************************************************************)
\* a handler may call start while fewer than MaxPending callbacks are pending
CanStart == Cardinality(pendingFrames) < MaxPending

\* startWindy(): this._windy.start(new Layer(...)) on the map's current view
VelocityLayer_startWindy(view, seed) == Windy_start(Layer(view), seed)

\* initWindy(): new Windy(options) sets the options and loads options.data;
\* the onDrawLayer() it calls then arms the display timeout when there is
\* data; the map events are bound.  Callbacks still pending for a destroyed
\* engine belong to that engine and are dropped here.
VelocityLayer_initWindy ==
    /\ windy' = TRUE
    /\ OptionsBecome(SetOptionsFields(WindyOptionInit, options))
    /\ FieldsBecome(IF options.data # None
                    THEN SetDataFields(WindyFieldInit, Val(options.data))
                    ELSE WindyFieldInit)
    /\ layer' = None
    /\ particules' = <<>>
    /\ animationBucket' = None
    /\ animationLoop' = 0
    /\ then' = <<0, 1>>
    /\ pendingFrames' = {}
    /\ context' = TRUE
    /\ displayTimeout' = (options.data # None)
    /\ mapEvents' = TRUE
    /\ phase' = "Idle"
    /\ UNCHANGED <<options, onMap>>

\* onDrawLayer(), called by the canvas layer
VelocityLayer_onDrawLayer ==
    IF ~windy THEN VelocityLayer_initWindy
    ELSE /\ displayTimeout' = IF options.data = None THEN displayTimeout ELSE TRUE
         /\ UNCHANGED <<fieldVars, optionVars, animVars, phase,
                        options, windy, context, mapEvents, onMap>>

\* the delayed startWindy() of onDrawLayer
DisplayTimeoutFires(seed) ==
    /\ pc = "idle"
    /\ displayTimeout
    /\ CanStart
    /\ displayTimeout' = FALSE
    /\ UNCHANGED <<fieldVars, optionVars>>
    /\ VelocityLayer_startWindy(mapView, seed)
    /\ phase' = "Running"
    /\ lastOp' = Handler(TRUE, FALSE)
    /\ UNCHANGED <<tickVars, hostVars, canvasVars,
                   options, windy, context, mapEvents, onMap>>

\* setData(data)
VelocityLayer_setData(data, seed) ==
    /\ pc = "idle"
    /\ options' = [options EXCEPT !.data = Some(data)]
    /\ UNCHANGED optionVars
    /\ IF windy
       THEN /\ CanStart
            /\ Windy_setData(data)
            /\ VelocityLayer_startWindy(mapView, seed)
            /\ phase' = "Running"
       ELSE /\ seed = 0
            /\ UNCHANGED <<fieldVars, animVars, phase>>
    /\ lastOp' = Handler(windy, FALSE)
    /\ UNCHANGED <<tickVars, hostVars, canvasVars,
                   windy, context, displayTimeout, mapEvents, onMap>>

\* setOptions(partial): the engine is handed the partial options
VelocityLayer_setOptions(partial, seed) ==
    /\ pc = "idle"
    /\ options' = MergeOptions(options, partial)
    /\ IF windy
       THEN /\ CanStart
            /\ Windy_setOptions(partial)
            /\ IF partial.data # None THEN Windy_setData(Val(partial.data))
               ELSE UNCHANGED fieldVars
            /\ VelocityLayer_startWindy(mapView, seed)
            /\ phase' = "Running"
       ELSE /\ seed = 0
            /\ UNCHANGED <<fieldVars, optionVars, animVars, phase>>
    /\ lastOp' = Handler(windy, FALSE)
    /\ UNCHANGED <<tickVars, hostVars, canvasVars,
                   windy, context, displayTimeout, mapEvents, onMap>>

\* the handlers of toggleEvents: dragstart and zoomstart stop the engine
GestureStart(kind) ==
    /\ pc = "idle"
    /\ gesture = "none"
    /\ gesture' = kind
    /\ IF mapEvents
       THEN Windy_stop /\ phase' = "Stopped"
       ELSE UNCHANGED <<animVars, phase>>
    /\ lastOp' = Handler(FALSE, mapEvents)
    /\ UNCHANGED <<fieldVars, optionVars, tickVars, now, particuleReduction, mapView,
                   layerVars, canvasVars>>

\* dragend and zoomend: clearAndRestart() on the view the gesture ended on
GestureEnd(kind, view, seed) ==
    /\ pc = "idle"
    /\ gesture = kind
    /\ gesture' = "none"
    /\ mapView' = view
    /\ UNCHANGED <<fieldVars, optionVars>>
    /\ IF mapEvents /\ windy
       THEN /\ CanStart
            /\ VelocityLayer_startWindy(view, seed)
            /\ phase' = "Running"
       ELSE /\ seed = 0
            /\ UNCHANGED <<animVars, phase>>
    /\ lastOp' = Handler(mapEvents /\ windy, FALSE)
    /\ UNCHANGED <<tickVars, now, particuleReduction, layerVars, canvasVars>>

\* resize: clearWind()
Resize(view) ==
    /\ pc = "idle"
    /\ gesture = "none"
    /\ view # mapView
    /\ mapView' = view
    /\ IF mapEvents /\ windy
       THEN Windy_stop /\ phase' = "Stopped"
       ELSE UNCHANGED <<animVars, phase>>
    /\ lastOp' = Handler(FALSE, mapEvents /\ windy)
    /\ UNCHANGED <<fieldVars, optionVars, tickVars, now, particuleReduction, gesture,
                   layerVars, canvasVars>>

\* onAdd(map): a new canvas layer is created and added to the map; its
\* onAdd requests a redraw frame and defers onLayerDidMove.  Callbacks of a
\* canvas layer removed earlier belong to that object and are dropped here.
VelocityLayer_onAdd ==
    /\ pc = "idle"
    /\ ~onMap
    /\ onMap' = TRUE
    /\ canvasMap' = TRUE
    /\ canvasFrame' = TRUE
    /\ framePending' = TRUE
    /\ deferredMove' = TRUE
    /\ lastOp' = Handler(FALSE, FALSE)
    /\ UNCHANGED <<fieldVars, optionVars, animVars, tickVars, hostVars, phase,
                   options, windy, context, displayTimeout, mapEvents>>

\* onRemove(map) with a destroyWind() that leaves the display timeout armed
VelocityLayer_onRemove_keepsTimeout ==
    /\ pc = "idle"
    /\ onMap
    /\ IF windy
       THEN Windy_stop /\ phase' = "Stopped"
       ELSE UNCHANGED <<animVars, phase>>
    /\ windy' = FALSE
    /\ mapEvents' = FALSE
    /\ onMap' = FALSE
    /\ canvasMap' = FALSE
    /\ canvasFrame' = FALSE
    /\ framePending' = IF canvasFrame THEN FALSE ELSE framePending
    /\ lastOp' = Handler(FALSE, windy)
    /\ UNCHANGED <<fieldVars, optionVars, tickVars, hostVars, options, context,
                   displayTimeout, deferredMove>>

\* onRemove(map): destroyWind(), whose removeLayer runs CanvasLayer.onRemove
VelocityLayer_onRemove ==
    /\ pc = "idle"
    /\ onMap
    /\ displayTimeout' = FALSE
    /\ IF windy
       THEN Windy_stop /\ phase' = "Stopped"
       ELSE UNCHANGED <<animVars, phase>>
    /\ windy' = FALSE
    /\ mapEvents' = FALSE
    /\ onMap' = FALSE
    /\ canvasMap' = FALSE
    /\ canvasFrame' = FALSE
    /\ framePending' = IF canvasFrame THEN FALSE ELSE framePending
    /\ lastOp' = Handler(FALSE, windy)
    /\ UNCHANGED <<fieldVars, optionVars, tickVars, hostVars, options, context,
                   deferredMove>>

(***************************************************************************)
(* CanvasLayer                                                             *)
(***************************************************************************)
\* drawLayer(): calls the delegate unless the map reference is cleared
CanvasLayer_drawLayer ==
    /\ IF canvasMap THEN VelocityLayer_onDrawLayer
       ELSE UNCHANGED <<fieldVars, optionVars, animVars, phase, layerVars>>
    /\ canvasFrame' = FALSE

\* the frame requested by needRedraw fires
CanvasFrameFires ==
    /\ pc = "idle"
    /\ framePending
    /\ framePending' = FALSE
    /\ CanvasLayer_drawLayer
    /\ lastOp' = Handler(FALSE, FALSE)
    /\ UNCHANGED <<tickVars, hostVars, canvasMap, deferredMove>>

\* onLayerDidMove(): returns when the map reference is cleared
CanvasLayer_onLayerDidMove ==
    IF canvasMap THEN CanvasLayer_drawLayer
    ELSE UNCHANGED <<fieldVars, optionVars, animVars, phase, layerVars, canvasFrame>>

\* the setTimeout(onLayerDidMove, 0) of onAdd fires
DeferredMoveFires ==
    /\ pc = "idle"
    /\ deferredMove
    /\ deferredMove' = FALSE
    /\ CanvasLayer_onLayerDidMove
    /\ lastOp' = Handler(FALSE, FALSE)
    /\ UNCHANGED <<tickVars, hostVars, canvasMap, framePending>>

\* the map fires moveend, to which the canvas layer is subscribed
MapMoveEnd ==
    /\ pc = "idle"
    /\ canvasMap
    /\ gesture = "none"
    /\ CanvasLayer_onLayerDidMove
    /\ lastOp' = Handler(FALSE, FALSE)
    /\ UNCHANGED <<tickVars, hostVars, canvasMap, framePending, deferredMove>>

(***************************************************************************)
(* A client of class Windy calling its public methods directly             *)
(***************************************************************************)
StartCall(view, seed) ==
    /\ pc = "idle"
    /\ CanStart
    /\ UNCHANGED <<fieldVars, optionVars>>
    /\ Windy_start(Layer(view), seed)
    /\ phase' = "Running"
    /\ lastOp' = Op("start", TRUE, FALSE)
    /\ UNCHANGED <<tickVars, hostVars, layerVars, canvasVars>>

StopCall ==
    /\ pc = "idle"
    /\ Windy_stop
    /\ phase' = "Stopped"
    /\ lastOp' = Op("stop", FALSE, TRUE)
    /\ UNCHANGED <<fieldVars, optionVars, tickVars, hostVars, layerVars, canvasVars>>

SetDataCall(data) ==
    /\ pc = "idle"
    /\ Windy_setData(data)
    /\ lastOp' = [Op("setData", FALSE, FALSE) EXCEPT !.pairs = Pairs(data)]
    /\ UNCHANGED <<optionVars, animVars, tickVars, hostVars, layerVars, canvasVars, phase>>

\* setOptions that also empties the pool
SetOptionsCall_dropsPool(o) ==
    /\ pc = "idle"
    /\ Windy_setOptions(o)
    /\ particules' = <<>>
    /\ lastOp' = Op("setOptions", FALSE, FALSE)
    /\ UNCHANGED <<fieldVars, layer, animationBucket, animationLoop, then, pendingFrames,
                   tickVars, hostVars, layerVars, canvasVars, phase>>

SetOptionsCall(o) ==
    /\ pc = "idle"
    /\ Windy_setOptions(o)
    /\ lastOp' = Op("setOptions", FALSE, FALSE)
    /\ UNCHANGED <<fieldVars, animVars, tickVars, hostVars, layerVars, canvasVars, phase>>

\* setData called by a client that keeps the data set it loaded
LoadCall(data) ==
    /\ pc = "idle"
    /\ Windy_setData(data)
    /\ lastOp' = [Op("load", FALSE, FALSE) EXCEPT !.pairs = Pairs(data), !.out = <<data>>]
    /\ UNCHANGED <<optionVars, animVars, tickVars, hostVars, layerVars, canvasVars, phase>>

\* interpolate called by a client, which keeps the query and the result; the
\* cell of IrregularGrid.get is kept with them
InterpolateCall(lambda, phi) ==
    /\ pc = "idle"
    /\ lastOp' = [Op("interpolate", FALSE, FALSE) EXCEPT
                     !.out = [lambda |-> lambda, phi |-> phi,
                              result |-> Windy_interpolate(Fields, waveMode = Some(TRUE),
                                                           lambda, phi),
                              cell |-> IF grid # None /\ isIrregularGrid
                                       THEN IrregularGrid_cell(Val(grid), lambda, phi)
                                       ELSE None]]
    /\ UNCHANGED <<fieldVars, optionVars, animVars, tickVars, hostVars, layerVars,
                   canvasVars, phase>>

\* new Windy(options) by a client that keeps the options: a fresh engine,
\* setOptions(options) and, when the options carry data, setData(options.data)
ConstructCall(o) ==
    /\ pc = "idle"
    /\ pendingFrames = {}
    /\ OptionsBecome(SetOptionsFields(WindyOptionInit, o))
    /\ FieldsBecome(IF o.data # None THEN SetDataFields(WindyFieldInit, Val(o.data))
                    ELSE WindyFieldInit)
    /\ layer' = None
    /\ particules' = <<>>
    /\ animationBucket' = None
    /\ animationLoop' = 0
    /\ then' = <<0, 1>>
    /\ lastOp' = [Op("construct", FALSE, FALSE) EXCEPT !.out = <<o>>]
    /\ UNCHANGED <<pendingFrames, tickVars, hostVars, layerVars, canvasVars, phase>>

\* setOptions called by a client that keeps the options
ConfigureCall(o) ==
    /\ pc = "idle"
    /\ Windy_setOptions(o)
    /\ lastOp' = [Op("configure", FALSE, FALSE) EXCEPT !.out = <<o>>]
    /\ UNCHANGED <<fieldVars, animVars, tickVars, hostVars, layerVars, canvasVars, phase>>

\* interpolate(lambda, phi) on a regular grid for the double lambda next
\* below the origin lambda0, by a client that also calls
\* interpolate(lambda + 360, phi): lambda - lambda0 is a negative number
\* below the precision of doubles at 360, and lambda + 360 rounds to
\* lambda0 + 360, whose offset wraps to 0
InterpolateBelowOriginCall(phi) ==
    /\ pc = "idle"
    /\ grid # None
    /\ ~isIrregularGrid
    /\ Abs(Val(lambda0)) < 128 * Deg
    /\ lastOp' = [Op("interpolateBelowOrigin", FALSE, FALSE) EXCEPT
                     !.out = [phi |-> phi,
                              result |-> Windy_interpolateFrom(
                                             Fields, waveMode = Some(TRUE),
                                             Windy_floorMod_belowZero(360 * Deg), phi),
                              shifted |-> Windy_interpolateFrom(
                                              Fields, waveMode = Some(TRUE),
                                              Windy_floorMod(360 * Deg, 360 * Deg), phi)]]
    /\ UNCHANGED <<fieldVars, optionVars, animVars, tickVars, hostVars, layerVars,
                   canvasVars, phase>>

\* drawWaves draws a particle whose wave height is waveHeight; the offsets
\* of its segments are kept
DrawWavesParticle(waveHeight) ==
    /\ pc = "idle"
    /\ lastOp' = [Op("drawWaves", FALSE, FALSE) EXCEPT
                     !.out = [waveHeight |-> waveHeight,
                              offsets |-> Windy_waveOffsets(waveHeight)]]
    /\ UNCHANGED <<fieldVars, optionVars, animVars, tickVars, hostVars, layerVars,
                   canvasVars, phase>>

(***************************************************************************)
(* Specifications                                                          *)
(***************************************************************************)
Seeds == 0..MaxSeed

\* the host and the layers before the layer is added to a map
HostInit ==
    /\ pc = "idle"
    /\ cursor = 0
    /\ now = 0
    /\ pendingFrames = {}
    /\ mapView \in MapViews
    /\ gesture = "none"
    /\ windy = FALSE
    /\ context = FALSE
    /\ displayTimeout = FALSE
    /\ mapEvents = FALSE
    /\ onMap = FALSE
    /\ canvasMap = FALSE
    /\ canvasFrame = FALSE
    /\ framePending = FALSE
    /\ deferredMove = FALSE
    /\ phase = "Idle"
    /\ lastOp = [name |-> "init", started |-> FALSE, stopped |-> FALSE, before |-> 0,
                 pairs |-> <<>>, out |-> <<>>]

\* the engine after new Windy(o): setOptions(o), then setData(o.data) if any
WindyConstructed(o) ==
    LET f == IF o.data # None THEN SetDataFields(WindyFieldInit, Val(o.data))
             ELSE WindyFieldInit
        c == SetOptionsFields(WindyOptionInit, o)
    IN  /\ grid = f.grid
        /\ isIrregularGrid = f.isIrregularGrid
        /\ lambda0 = f.lambda0
        /\ phi0 = f.phi0
        /\ dLambda = f.dLambda
        /\ dPhi = f.dPhi
        /\ ni = f.ni
        /\ nj = f.nj
        /\ autoColorRange = c.autoColorRange
        /\ colorScale = c.colorScale
        /\ velocityScale = c.velocityScale
        /\ particleAge = c.particleAge
        /\ opacity = c.opacity
        /\ particleMultiplier = c.particleMultiplier
        /\ particleLineWidth = c.particleLineWidth
        /\ frameTime = c.frameTime
        /\ waveMode = c.waveMode
        /\ wavesParticlesSeparation = c.wavesParticlesSeparation
        /\ layer = None
        /\ particules = <<>>
        /\ animationBucket = None
        /\ animationLoop = 0
        /\ then = <<0, 1>>

\* the field initialisers of class Windy, before any engine is constructed
WindyUnconstructed ==
    /\ grid = None
    /\ isIrregularGrid = FALSE
    /\ lambda0 = None
    /\ phi0 = None
    /\ dLambda = None
    /\ dPhi = None
    /\ ni = None
    /\ nj = None
    /\ autoColorRange = FALSE
    /\ colorScale = None
    /\ velocityScale = None
    /\ particleAge = None
    /\ opacity = None
    /\ particleMultiplier = <<1, 300>>
    /\ particleLineWidth = None
    /\ frameTime = None
    /\ waveMode = None
    /\ wavesParticlesSeparation = None
    /\ layer = None
    /\ particules = <<>>
    /\ animationBucket = None
    /\ animationLoop = 0
    /\ then = <<0, 1>>

\* Spec: an engine constructed with the options o and driven through its
\* public methods, on a desktop or a mobile user agent
Init ==
    /\ HostInit
    /\ particuleReduction \in {<<1, 1>>, <<2, 1>>}
    /\ options = LayerDefaults
    /\ \E c \in CallerOptions : WindyConstructed(MergeOptions(LayerDefaults, c))

Next ==
    \/ \E h \in pendingFrames : FrameFires(h)
    \/ \E seed \in Seeds : EvolveStep(seed)
    \/ Draw
    \/ ClockTick(MaxTime)
    \/ \E view \in MapViews, seed \in Seeds : StartCall(view, seed)
    \/ StopCall
    \/ \E data \in DataSets : SetDataCall(data)
    \/ \E o \in PartialOptions : SetOptionsCall(o)

Spec == Init /\ [][Next]_vars

\* SpecLayer: a VelocityLayer constructed with its options, added to and
\* removed from a map whose gestures and redraws drive the engine
InitLayer ==
    /\ HostInit
    /\ particuleReduction = <<1, 1>>
    /\ options \in {MergeOptions(LayerDefaults, c) : c \in CallerOptions}
    /\ WindyUnconstructed

NextLayer ==
    \/ \E h \in pendingFrames : FrameFires(h)
    \/ EvolveStep(0)
    \/ Draw
    \/ ClockTick(LayerMaxTime)
    \/ DisplayTimeoutFires(0)
    \/ \E data \in LayerDataSets : VelocityLayer_setData(data, 0)
    \/ \E partial \in PartialOptions : VelocityLayer_setOptions(partial, 0)
    \/ \E kind \in {"drag", "zoom"} : GestureStart(kind)
    \/ \E kind \in {"drag", "zoom"}, view \in MapViews : GestureEnd(kind, view, 0)
    \/ \E view \in MapViews : Resize(view)
    \/ VelocityLayer_onAdd
    \/ VelocityLayer_onRemove
    \/ CanvasFrameFires
    \/ DeferredMoveFires
    \/ MapMoveEnd

SpecLayer == InitLayer /\ [][NextLayer]_vars

\* SpecGrid: an engine constructed without data whose client loads data sets
\* and samples the field
InitGrid ==
    /\ HostInit
    /\ mapView = View(1 * Deg, 2 * Deg, 0, 0, 2, 1)
    /\ particuleReduction = <<1, 1>>
    /\ options = LayerDefaults
    /\ WindyConstructed(LayerDefaults)

NextGrid ==
    \/ \E data \in GridDataSets : LoadCall(data)
    \/ \E lambda \in QueryLongitudes, phi \in QueryLatitudes : InterpolateCall(lambda, phi)
    \/ \E phi \in QueryLatitudes : InterpolateBelowOriginCall(phi)

SpecGrid == InitGrid /\ [][NextGrid]_vars

\* SpecLongitudes: an engine constructed with an irregular grid over any
\* longitude array, and sampled
InitLongitudes ==
    /\ HostInit
    /\ mapView = View(1 * Deg, 2 * Deg, 0, 0, 2, 1)
    /\ particuleReduction = <<1, 1>>
    /\ options = LayerDefaults
    /\ \E longitudes \in LongitudeArrays :
           WindyConstructed([LayerDefaults EXCEPT !.data = Some(LongitudeSet(longitudes))])

NextLongitudes == \E lambda \in LongitudeQueries : InterpolateCall(lambda, HalfDeg)

SpecLongitudes == InitLongitudes /\ [][NextLongitudes]_vars

\* SpecWaves: the fans drawWaves draws for particles of any wave height
NextWaves == \E waveHeight \in WaveHeights : DrawWavesParticle(waveHeight)

SpecWaves == InitGrid /\ [][NextWaves]_vars

\* SpecOptions: engines constructed and configured by a client, and loaded
NextOptions ==
    \/ \E o \in ClientOptions : ConstructCall(o)
    \/ \E o \in ClientOptions : ConfigureCall(o)
    \/ \E d \in ClientData \ {None} : LoadCall(Val(d))

SpecOptions == InitGrid /\ [][NextOptions]_vars

(***************************************************************************)
(* Properties of the animation loop (specification sections 5.1 to 5.3)    *)
(***************************************************************************)
AllBucketsEmpty ==
    animationBucket # None =>
        \A i \in DOMAIN Val(animationBucket) : Val(animationBucket)[i] = <<>>

\* the time elapsed since `then`, as frame() measures it
Elapsed == RSub(<<now, 1>>, then)

\* C1: at most one scheduled tick callback is pending at any time, also when
\* start is called while the engine is running.
C1_AtMostOnePending == Cardinality(pendingFrames) <= 1

\* C2: once stop() has returned, and until the next start(), no tick callback
\* is pending and no tick runs.
C2_NothingPendingAfterStop ==
    phase = "Stopped" =>
        /\ pendingFrames = {}
        /\ lastOp.name \notin {"frame", "frameWork", "evolve", "throw", "draw"}

\* C3: stop() leaves the pool empty, every bucket empty and the handle
\* cleared; the pool and the buckets stay empty until the next start().
C3_StopEmptiesPoolAndBuckets ==
    /\ phase = "Stopped" => particules = <<>> /\ AllBucketsEmpty
    /\ lastOp.stopped => animationLoop = 0

\* a tick that was left pending has worked after stop() emptied a pool
C3_Witness ==
    /\ phase = "Stopped"
    /\ lastOp.name = "draw"
    /\ animationBucket # None

\* C4: start() discards the pool it finds and fills it with exactly
\* round(width * height * particleMultiplier) freshly seeded particles when
\* there is no mobile reduction: 100 of them for 300 x 100 and 1/300.
C4_StartFillsPool ==
    /\ (lastOp.name = "start" /\ particuleReduction = <<1, 1>>) =>
            LET cb == Val(layer).canvasBound
            IN  /\ Len(particules) =
                       RoundDiv(cb.width * cb.height * particleMultiplier[1],
                                particleMultiplier[2])
                /\ \E seed \in Seeds : \A k \in DOMAIN particules :
                       particules[k] =
                           CanvasBound_getRandomParticule(cb, Val(particleAge), seed, k)
    /\ LoopCount(Windy_particuleCount(Layer(View(1, 1, 0, 0, 300, 100)),
                                      <<1, 300>>, <<1, 1>>)) = 100

\* start() has replaced a pool that was not empty
C4_Witness ==
    /\ lastOp.name = "start"
    /\ lastOp.before > 0
    /\ particuleReduction = <<1, 1>>
    /\ Len(particules) > 0

\* C5: a tick whose elapsed time is below the frame time only re-schedules
\* the next callback: the particles, the buckets and `then` are unchanged and
\* nothing is drawn.
C5_ThrottledTickOnlyReschedules ==
    [][(/\ pc = "idle"
        /\ RLess(Elapsed, Val(frameTime))
        /\ \E h \in pendingFrames : FrameFires(h))
       => /\ UNCHANGED <<particules, animationBucket, then>>
          /\ pc' = "idle"
          /\ Cardinality(pendingFrames') = Cardinality(pendingFrames)]_vars

\* a tick has fired over a pool of particles after a positive time that is
\* below the frame time
C5_Witness ==
    /\ lastOp.name = "frame"
    /\ particules # <<>>
    /\ RLess(<<0, 1>>, Elapsed)
    /\ RLess(Elapsed, Val(frameTime))

\* C6: a tick whose elapsed time is at least 1000 / frameRate, the equal case
\* included, runs evolve and then draw.
C6_TickWorksFromThreshold ==
    [][(/\ pc = "idle"
        /\ ~RLess(Elapsed, Val(frameTime))
        /\ \E h \in pendingFrames : FrameFires(h))
       => pc' = "evolve"]_vars

\* C7: within a working tick every particle is aged, repositioned if dead,
\* resampled and bucketed before draw begins, and no other handler or tick
\* is interleaved.
C7_EvolveCompletesBeforeDraw ==
    [][pc = "evolve" =>
         /\ UNCHANGED <<fieldVars, optionVars, layer, animationLoop, then, pendingFrames,
                        hostVars, phase>>
         /\ pc' = "evolve" =>
                /\ cursor' = cursor + 1
                /\ InBucket(Val(animationBucket'), cursor)
                /\ particules'[cursor].age \in {particules[cursor].age + 1, 0}
                /\ ~Particule_isDead(particules'[cursor])
                /\ particules'[cursor].intensity # None
         /\ lastOp'.name = "draw" =>
                /\ cursor = Len(particules) + 1
                /\ \A k \in DOMAIN particules : InBucket(Val(animationBucket), k)]_vars

\* evolve has gone through a pool of two particles and draw is next
C7_Witness ==
    /\ pc = "evolve"
    /\ Len(particules) >= 2
    /\ cursor > Len(particules)

\* a data set none of whose records is a u record, or none a v record
C8_Incomplete(pairs) ==
    \/ \A k \in DOMAIN pairs : pairs[k] \notin {<<1, 2>>, <<2, 2>>}
    \/ \A k \in DOMAIN pairs : pairs[k] \notin {<<1, 3>>, <<2, 3>>}

\* C8: Windy.setData with a data set that lacks a u record or a v record
\* changes nothing of the field: grid, isIrregularGrid, origin, deltas and
\* dimensions keep their values, and stay unset if no data was loaded before.
C8_RejectedSetDataKeepsField ==
    [][(lastOp'.name = "setData" /\ C8_Incomplete(lastOp'.pairs))
       => UNCHANGED fieldVars]_vars

\* an incomplete data set was offered to an engine that has a grid
C8_Witness ==
    /\ lastOp.name = "setData"
    /\ C8_Incomplete(lastOp.pairs)
    /\ grid # None

\* C9: whatever the layer's handlers and the host's events do, a tick never
\* runs evolve while the engine has no grid.
C9_EvolveHasGrid == pc = "evolve" => grid # None

\* C10: a failure while one particle's wind is computed does not end the
\* tick: evolve goes on with the other particles and the tick still draws.
C10_EvolveReachesDraw ==
    [][pc = "evolve" => (pc' = "evolve" \/ lastOp'.name = "draw")]_vars

(***************************************************************************)
(* Properties of the field: loading and sampling (sections 3, 4.1, 4.2)    *)
(***************************************************************************)
\* C11: after every accepted setData, in the regular and in the irregular
\* form, the Vector array handed to the grid has width x height elements.
C11_GridArrayMatchesDimensions ==
    grid # None => Len(Val(grid).data) = Val(grid).width * Val(grid).height

\* the records a client offered in its last load, and their pairs
C12_Records ==
    IF lastOp.out[1].isArray THEN lastOp.out[1].records ELSE <<>>
C12_Indices(pairs) ==
    {k \in DOMAIN C12_Records :
        <<C12_Records[k].parameterCategory, C12_Records[k].parameterNumber>> \in pairs}
C12_UPairs == {<<1, 2>>, <<2, 2>>}
C12_VPairs == {<<1, 3>>, <<2, 3>>}
C12_Others == DOMAIN C12_Records \ (C12_Indices(C12_UPairs) \cup C12_Indices(C12_VPairs))
\* the values of a record, index by index, undefined beyond its end
C12_ValueAt(k, idx) ==
    IF idx \in DOMAIN C12_Records[k].data THEN <<C12_Records[k].data[idx]>> ELSE <<>>

\* C12: setData takes the u component from a record whose pair is (1,2) or
\* (2,2), the v component from one whose pair is (1,3) or (2,3) and the wave
\* height from a record with another pair; never from a u or v record, and
\* from none when no record has another pair.
C12_ComponentsByPair ==
    (lastOp.name = "load" /\ C12_Indices(C12_UPairs) # {} /\ C12_Indices(C12_VPairs) # {})
    => /\ grid # None
       /\ LET vectors == Val(grid).data
              cells == 1..Len(C12_Records[CHOOSE k \in C12_Indices(C12_UPairs) : TRUE].data)
          IN  /\ \E k \in C12_Indices(C12_UPairs) :
                     \A idx \in cells : <<vectors[idx].u>> = C12_ValueAt(k, idx)
              /\ \E k \in C12_Indices(C12_VPairs) :
                     \A idx \in cells : <<vectors[idx].v>> = C12_ValueAt(k, idx)
              /\ IF C12_Others = {}
                 THEN \A idx \in cells : vectors[idx].waveHeight = <<>>
                 ELSE \E k \in C12_Others :
                          \A idx \in cells : vectors[idx].waveHeight = C12_ValueAt(k, idx)
              /\ \A k \in C12_Indices(C12_UPairs) \cup C12_Indices(C12_VPairs) :
                     \E idx \in cells : vectors[idx].waveHeight # C12_ValueAt(k, idx)

\* a list with two u records and two records of other pairs was loaded
C12_Witness ==
    /\ lastOp.name = "load"
    /\ Cardinality(C12_Indices(C12_UPairs)) = 2
    /\ Cardinality(C12_Others) = 2
    /\ grid # None

\* the distance from a to b going east, in [0, 360) degrees
C13_East(a, b) == (b - a) % (360 * Deg)
\* lambda lies, within the tolerance, on the shorter arc between two nodes
C13_OnArc(a, b, lambda) ==
    IF C13_East(a, b) <= 180 * Deg
    THEN C13_East(a - EPS, lambda) <= C13_East(a, b) + 2 * EPS
    ELSE C13_East(b - EPS, lambda) <= C13_East(b, a) + 2 * EPS
\* the query of the last interpolate lies outside the coverage of the
\* irregular grid by more than the tolerance
C13_Outside ==
    LET g == Val(grid)
        lambda == lastOp.out.lambda
        phi == lastOp.out.phi
    IN  \/ phi < SeqMin(g.latitudes) - EPS
        \/ phi > SeqMax(g.latitudes) + EPS
        \/ /\ \A k \in DOMAIN g.longitudes : ~C13_OnArc(g.longitudes[k], g.longitudes[k], lambda)
           /\ \A k \in 1..(Len(g.longitudes) - 1) :
                  ~C13_OnArc(g.longitudes[k], g.longitudes[k + 1], lambda)

C14_SampledIrregular == lastOp.name = "interpolate" /\ grid # None /\ isIrregularGrid
C15_SampledRegular == lastOp.name = "interpolate" /\ grid # None /\ ~isIrregularGrid

\* C14: at every node (longitudes[i], latitudes[j]) of an irregular grid,
\* first and last rows and columns and date-line grids included, get returns
\* the stored Vector data[j * width + i]: its u, its v and its waveHeight.
C14_ExactAtNodes ==
    C14_SampledIrregular =>
        LET g == Val(grid)
        IN  \A i \in DOMAIN g.longitudes, j \in DOMAIN g.latitudes :
                (lastOp.out.lambda = g.longitudes[i] /\ lastOp.out.phi = g.latitudes[j])
                => lastOp.out.result =
                       <<[kind |-> "vector", vector |-> g.data[(j - 1) * g.width + i]]>>

\* C15: at every node (column i, row j) of a regular grid, the last row and
\* the last column included, interpolate returns the u and v stored there
\* and not null.
C15_RegularExactAtNodes ==
    C15_SampledRegular =>
        \A i \in 0..(Val(ni) - 1), j \in 0..(Val(nj) - 1) :
            (/\ lastOp.out.lambda * Val(dLambda)[2] = Val(lambda0) * Val(dLambda)[2]
                                                      + i * Val(dLambda)[1]
             /\ lastOp.out.phi * Val(dPhi)[2] = Val(phi0) * Val(dPhi)[2] - j * Val(dPhi)[1])
            => /\ lastOp.out.result # <<>>
               /\ lastOp.out.result[1].u = <<Val(grid).data[j * Val(ni) + i + 1].u, 1>>
               /\ lastOp.out.result[1].v = <<Val(grid).data[j * Val(ni) + i + 1].v, 1>>

\* the fractional column and row of the last query, as fractions over the
\* numerators of dLambda and dPhi
C16_ColumnNumerator ==
    ((lastOp.out.lambda - Val(lambda0)) % (360 * Deg)) * Val(dLambda)[2]
C16_RowNumerator == (Val(phi0) - lastOp.out.phi) * Val(dPhi)[2]
C16_Column == C16_ColumnNumerator \div Val(dLambda)[1]
C16_Row == FloorDiv(C16_RowNumerator, Val(dPhi)[1])
\* the corner at column i, row j of the row structure, <<>> if undefined
C16_Corner(i, j) ==
    LET rows == Val(grid).rows
    IN  IF j + 1 \in DOMAIN rows /\ i + 1 \in DOMAIN rows[j + 1] THEN rows[j + 1][i + 1]
        ELSE <<>>
\* the blend of the four corners of the cell, for the component at index c
\* of <<u, v>>
C16_Blend(c) ==
    LET xn == C16_ColumnNumerator - C16_Column * Val(dLambda)[1]
        yn == C16_RowNumerator - C16_Row * Val(dPhi)[1]
        x == Rat(xn, Val(dLambda)[1])
        y == Rat(yn, Val(dPhi)[1])
        Of(i, j) == IF c = 1 THEN C16_Corner(i, j)[1].u ELSE C16_Corner(i, j)[1].v
    IN  Rat((x[2] - x[1]) * (y[2] - y[1]) * Of(C16_Column, C16_Row)
            + x[1] * (y[2] - y[1]) * Of(C16_Column + 1, C16_Row)
            + (x[2] - x[1]) * y[1] * Of(C16_Column, C16_Row + 1)
            + x[1] * y[1] * Of(C16_Column + 1, C16_Row + 1),
            x[2] * y[2])

\* C16: on a regular grid interpolate returns the bilinear blend of the four
\* corners around the fractional column and row, with the weights
\* (1-x)(1-y), x(1-y), (1-x)y and xy, and null when a corner is undefined;
\* the centre of the 2 x 2 scenario gives u = 0.5 and v = 0.5.
C16_BilinearBlend ==
    C15_SampledRegular =>
        /\ IF \E i \in {C16_Column, C16_Column + 1}, j \in {C16_Row, C16_Row + 1} :
                  C16_Corner(i, j) = <<>>
           THEN lastOp.out.result = <<>>
           ELSE /\ lastOp.out.result # <<>>
                /\ lastOp.out.result[1].u = C16_Blend(1)
                /\ lastOp.out.result[1].v = C16_Blend(2)
        /\ (/\ lastOp.out.lambda = 5 * Deg /\ lastOp.out.phi = 5 * Deg
            /\ Val(lambda0) = 0 /\ Val(phi0) = 10 * Deg
            /\ Val(dLambda) = <<10 * Deg, 1>> /\ Val(dPhi) = <<10 * Deg, 1>>)
           => /\ lastOp.out.result # <<>>
              /\ lastOp.out.result[1].u = <<1, 2>>
              /\ lastOp.out.result[1].v = <<1, 2>>

\* a cell of a regular grid was sampled off its centre lines and blended
C16_Witness ==
    /\ C15_SampledRegular
    /\ lastOp.out.lambda = 1 * Deg
    /\ lastOp.out.phi = 5 * Deg
    /\ Val(phi0) = 10 * Deg
    /\ lastOp.out.result # <<>>

\* columns k and k + 1 step east across the antimeridian
C17_Step(g, k) ==
    /\ k + 1 \in DOMAIN g.longitudes
    /\ g.longitudes[k] > 90 * Deg
    /\ g.longitudes[k + 1] < -90 * Deg
\* lambda, in either convention, lies between the two nodes of the step
C17_Between(g, k, lambda) ==
    /\ g.longitudes[k] + EPS < lambda % (360 * Deg)
    /\ (lambda % (360 * Deg)) + EPS < g.longitudes[k + 1] + 360 * Deg

\* C17: a query longitude between two adjacent nodes either side of the
\* antimeridian, given in [-180, 180] or in [0, 360), is not rejected and is
\* bracketed by the indices of those two columns.
C17_DateLineBracket ==
    C14_SampledIrregular =>
        LET g == Val(grid)
        IN  \A k \in DOMAIN g.longitudes :
                (/\ C17_Step(g, k)
                 /\ C17_Between(g, k, lastOp.out.lambda)
                 /\ lastOp.out.phi >= SeqMin(g.latitudes)
                 /\ lastOp.out.phi <= SeqMax(g.latitudes))
                => /\ lastOp.out.cell # <<>>
                   /\ lastOp.out.cell[1].lonIdx0 = k - 1
                   /\ lastOp.out.cell[1].lonIdx1 = k

\* a longitude west of the antimeridian, in the [0, 360) convention, was
\* bracketed between the inner columns of a four-column grid
C17_Witness ==
    /\ C14_SampledIrregular
    /\ Val(grid).width = 4
    /\ lastOp.out.lambda = 180 * Deg + HalfDeg
    /\ lastOp.out.cell # <<>>
    /\ lastOp.out.cell[1].lonIdx0 = 1
    /\ lastOp.out.cell[1].lonIdx1 = 2

\* C18: the blend of IrregularGrid has a waveHeight if and only if all four
\* corners have one (0 counts); it is the weighted sum of the corners'
\* wave heights, and 0 if that sum is negative.
C18_WaveHeightBlend ==
    (C14_SampledIrregular /\ lastOp.out.cell # <<>>)
    => LET c == lastOp.out.cell[1]
           w == lastOp.out.result[1].vector
           sum == (c.x[2] - c.x[1]) * (c.y[2] - c.y[1]) * c.g00.waveHeight[1]
                  + c.x[1] * (c.y[2] - c.y[1]) * c.g10.waveHeight[1]
                  + (c.x[2] - c.x[1]) * c.y[1] * c.g01.waveHeight[1]
                  + c.x[1] * c.y[1] * c.g11.waveHeight[1]
       IN  IF \E corner \in {c.g00, c.g10, c.g01, c.g11} : corner.waveHeight = <<>>
           THEN w.waveHeight = <<>>
           ELSE /\ w.waveHeight # <<>>
                /\ Rat(w.waveHeight[1], w.den) =
                       Rat(IF sum < 0 THEN 0 ELSE sum, c.x[2] * c.y[2])

(***************************************************************************)
(* Properties of the particle pool (sections 4.3, 4.5)                     *)
(***************************************************************************)
\* the particle k is where the canvas bound can put it
C19_InCanvas(k) ==
    LET cb == Val(layer).canvasBound
    IN  /\ particules[k].x >= cb.xMin /\ particules[k].x < cb.xMin + cb.width
        /\ particules[k].y >= cb.yMin /\ particules[k].y < cb.yMin + cb.height

\* C19: in a working tick a particle whose age reaches its maximum by grow()
\* is reset (age 0) in the same step of evolve, and is sampled and bucketed
\* where the reset left it; at every draw no bucketed particle is dead and
\* the age of every particle lies between 0 and its maximum.
C19_DeadIsResetBeforeDraw ==
    [][/\ lastOp'.name = "evolve" =>
              LET before == particules[cursor]
                  after == particules'[cursor]
                  lngLat == Layer_canvasToMap(Val(layer), after.x, after.y)
                  wind == GridGet(Val(grid), WrapLongitude(lngLat[1]), lngLat[2])
              IN  /\ before.age + 1 >= before.maxAge => after.age = 0
                  /\ before.age + 1 < before.maxAge => after.age = before.age + 1
                  /\ after.intensity = Some(IntensitySq(wind))
                  /\ InBucket(Val(animationBucket'), cursor)
       /\ lastOp'.name = "draw" =>
              \A k \in DOMAIN particules :
                  /\ InBucket(Val(animationBucket), k)
                  /\ particules[k].age >= 0
                  /\ particules[k].age < particules[k].maxAge]_vars

\* a tick has drawn a particle that its evolve had reset
C19_Witness ==
    /\ lastOp.name = "draw"
    /\ \E k \in DOMAIN particules :
           /\ particules[k].age = 0
           /\ InBucket(Val(animationBucket), k)
           /\ C19_InCanvas(k)

\* C20: the number of particles of the pool changes only in start and in
\* stop: ticks, setData and setOptions leave it as the last start set it.
C20_PoolLengthFixed ==
    [][Len(particules') # Len(particules) => lastOp'.name \in {"start", "stop"}]_vars

\* a running engine with particles was given new data or new options
C20_Witness ==
    /\ lastOp.name \in {"setData", "setOptions"}
    /\ phase = "Running"
    /\ Len(particules) > 0

(***************************************************************************)
(* Properties of the options (section 6)                                   *)
(***************************************************************************)
\* the squares of the intensities of the loaded dataset, as fractions
C21_IntensitiesSq == {IntensitySq(Val(grid).data[i]) : i \in DOMAIN Val(grid).data}
\* the colour scale's bound b is the least (greatest) intensity of the dataset
C21_IsMin(b) ==
    /\ b >= 0
    /\ \E q \in C21_IntensitiesSq : b * b * q[2] = q[1]
    /\ \A q \in C21_IntensitiesSq : b * b * q[2] <= q[1]
C21_IsMax(b) ==
    /\ b >= 0
    /\ \E q \in C21_IntensitiesSq : b * b * q[2] = q[1]
    /\ \A q \in C21_IntensitiesSq : b * b * q[2] >= q[1]

\* C21: an engine constructed with data and with neither minVelocity nor
\* maxVelocity has, after that first accepted load, a colour scale whose min
\* and max are the least and the greatest intensity of the dataset; with
\* either supplied, the bounds supplied are those of the scale.
C21_ColorScaleRange ==
    (lastOp.name = "construct" /\ grid # None)
    => LET o == lastOp.out[1]
           cs == Val(colorScale)
       IN  IF o.minVelocity = None /\ o.maxVelocity = None
           THEN C21_IsMin(cs.min) /\ C21_IsMax(cs.max)
           ELSE /\ o.minVelocity # None => cs.min = Val(o.minVelocity)
                /\ o.maxVelocity # None => cs.max = Val(o.maxVelocity)

\* C22: after setOptions with waveMode true, velocityScale,
\* particleMultiplier and particleAge are the caller's values where the
\* caller supplied them and the wave-mode defaults (0.0045, 1/7000, 200)
\* only where the caller supplied none.
C22_WaveModeOnlyDefaults ==
    (lastOp.name \in {"construct", "configure"} /\ lastOp.out[1].waveMode = Some(TRUE))
    => LET o == lastOp.out[1]
       IN  /\ velocityScale =
                  Some(IF o.velocityScale # None THEN Val(o.velocityScale)
                       ELSE <<45, 10000>>)
           /\ particleMultiplier =
                  (IF o.particleMultiplier # None THEN Val(o.particleMultiplier)
                   ELSE <<1, 7000>>)
           /\ particleAge =
                  Some(IF o.particleAge # None THEN Val(o.particleAge) ELSE 200)

(***************************************************************************)
(* Properties of IrregularGrid (section 4.2)                               *)
(***************************************************************************)
\* the 0-based indices i0, i1 bracket value in arr as the search promises
C23_Brackets(arr, value, i0, i1) ==
    /\ i0 <= i1
    /\ i1 - i0 <= 1
    /\ Min2(arr[i0 + 1], arr[i1 + 1]) - EPS <= value
    /\ value <= Max2(arr[i0 + 1], arr[i1 + 1]) + EPS
    /\ (\E k \in DOMAIN arr : Abs(arr[k] - value) <= EPS) => i0 = i1
\* the longitude get searches for, in the array it searches
C23_SearchedLon(g, lambda) ==
    IF g.crossesIDL
    THEN LET sv == lambda % (360 * Deg)
         IN  IF sv + EPS < Val(g.unrolledLongitudes)[1] THEN sv + 360 * Deg ELSE sv
    ELSE lambda

\* C23: for a monotonic array and a value within its range,
\* findBracketingIndices returns indices i0 <= i1, at most 1 apart, whose
\* values straddle the value, and equal whenever the value is a node within
\* the tolerance, the first and the last element included.
C23_BracketingIndices ==
    (C14_SampledIrregular /\ lastOp.out.cell # <<>>)
    => LET g == Val(grid)
           c == lastOp.out.cell[1]
       IN  /\ C23_Brackets(g.latitudes, lastOp.out.phi, c.latIdx0, c.latIdx1)
           /\ C23_Brackets(IF g.crossesIDL THEN Val(g.unrolledLongitudes)
                           ELSE g.longitudes,
                           C23_SearchedLon(g, lastOp.out.lambda), c.lonIdx0, c.lonIdx1)

\* C24: whenever IrregularGrid sets crossesIDL, the unrolled longitudes are
\* strictly increasing, as many as the longitudes, and each is congruent
\* modulo 360 to the normalized longitude of its node.
C24_UnrolledStrictlyIncreasing ==
    (grid # None /\ isIrregularGrid /\ Val(grid).crossesIDL)
    => LET g == Val(grid)
           unrolled == Val(g.unrolledLongitudes)
           norm == Val(g.normLongitudes)
       IN  /\ Len(unrolled) = Len(g.longitudes)
           /\ \A i \in 2..Len(unrolled) : unrolled[i] > unrolled[i - 1]
           /\ \A i \in DOMAIN unrolled : (unrolled[i] - norm[i]) % (360 * Deg) = 0

\* C25: crossesIDL is true exactly when the longitude array has at least
\* two entries, one of them above 90 and one below -90; an array of fewer
\* than two entries is never flagged; and Windy.setData computes the same
\* flag for the same array.
C25_CrossesIDLFlag ==
    (grid # None /\ isIrregularGrid)
    => LET g == Val(grid)
           far == /\ Len(g.longitudes) >= 2
                  /\ \E k \in DOMAIN g.longitudes : g.longitudes[k] > 90 * Deg
                  /\ \E k \in DOMAIN g.longitudes : g.longitudes[k] < -90 * Deg
       IN  /\ g.crossesIDL <=> far
           /\ Len(g.longitudes) < 2 => ~g.crossesIDL
           /\ Windy_detectDateLineCrossing(g.longitudes) <=> g.crossesIDL

\* a grid whose longitudes reach 90 and -100 degrees is flagged, and was sampled
C25_Witness ==
    /\ lastOp.name = "interpolate"
    /\ grid # None
    /\ Val(grid).longitudes = <<90 * Deg, -100 * Deg, 100 * Deg>>
    /\ Val(grid).crossesIDL

\* the longitudes are strictly ascending or strictly descending
C29_Monotonic(longitudes) ==
    \/ \A k \in 2..Len(longitudes) : longitudes[k - 1] < longitudes[k]
    \/ \A k \in 2..Len(longitudes) : longitudes[k - 1] > longitudes[k]
\* the blend of columns k and k + 1 over the two rows at the query of the
\* last interpolate, for the component at index c of <<u, v>>, as a fraction
C29_Blend(g, k, c) ==
    LET lo == g.longitudes[k]
        hi == g.longitudes[k + 1]
        x == Rat(lastOp.out.lambda - lo, hi - lo)
        y == Rat(lastOp.out.phi - g.latitudes[1], g.latitudes[2] - g.latitudes[1])
        Of(i, j) == IF c = 1 THEN g.data[(j - 1) * g.width + i].u
                    ELSE g.data[(j - 1) * g.width + i].v
    IN  Rat((x[2] - x[1]) * (y[2] - y[1]) * Of(k, 1) + x[1] * (y[2] - y[1]) * Of(k + 1, 1)
            + (x[2] - x[1]) * y[1] * Of(k, 2) + x[1] * y[1] * Of(k + 1, 2),
            x[2] * y[2])

\* C29: the quick bounds check of get rejects only queries out of range: on
\* a grid with monotonic longitudes, flagged as crossing the date line or
\* not, a query between two adjacent longitude nodes and two adjacent
\* latitude nodes gets the blend of those four corners, not the sentinel.
C29_BoundsCheckRejectsOnlyOutside ==
    (C14_SampledIrregular /\ C29_Monotonic(Val(grid).longitudes))
    => LET g == Val(grid)
           w == lastOp.out.result[1].vector
       IN  \A k \in 1..(Len(g.longitudes) - 1) :
               (/\ Min2(g.longitudes[k], g.longitudes[k + 1]) < lastOp.out.lambda
                /\ lastOp.out.lambda < Max2(g.longitudes[k], g.longitudes[k + 1]))
               => /\ lastOp.out.cell # <<>>
                  /\ w # ZeroVector
                  /\ Rat(w.u, w.den) = C29_Blend(g, k, 1)
                  /\ Rat(w.v, w.den) = C29_Blend(g, k, 2)

(***************************************************************************)
(* Properties of the regular grid (section 4.1)                            *)
(***************************************************************************)
\* the regular grid spans at least 360 degrees: Math.floor(ni * dLambda) >= 360
C26_Continuous == Val(ni) * Val(dLambda)[1] >= 360 * Deg * Val(dLambda)[2]
\* phi lies strictly between the first and the last row
C26_Inside(phi) ==
    /\ phi < Val(phi0)
    /\ (Val(phi0) - phi) * Val(dPhi)[2] < (Val(nj) - 1) * Val(dPhi)[1]

\* C26: on a regular grid spanning at least 360 degrees every row built by
\* setData has ni + 1 entries, the last equal to the first; at a latitude
\* strictly inside the grid interpolate never returns null and returns at
\* lon + 360 what it returns at lon.
C26_ContinuousGridIsPeriodic ==
    /\ (C15_SampledRegular /\ C26_Continuous)
       => LET rows == Val(grid).rows
              wave == waveMode = Some(TRUE)
          IN  /\ \A j \in DOMAIN rows :
                     /\ Len(rows[j]) = Val(ni) + 1
                     /\ rows[j][Val(ni) + 1] = rows[j][1]
              /\ C26_Inside(lastOp.out.phi)
                 => /\ lastOp.out.result # <<>>
                    /\ lastOp.out.result =
                           Windy_interpolate(Fields, wave, lastOp.out.lambda + 360 * Deg,
                                             lastOp.out.phi)
    /\ (lastOp.name = "interpolateBelowOrigin" /\ C26_Continuous
        /\ C26_Inside(lastOp.out.phi))
       => /\ lastOp.out.result # <<>>
          /\ lastOp.out.result = lastOp.out.shifted

(***************************************************************************)
(* Properties of the buckets and of the wave drawing (sections 4.4, 5.2)   *)
(***************************************************************************)
\* the places of the buckets that hold the particle k
C27_Places(k) ==
    {<<i, j>> \in (DOMAIN Val(animationBucket)) \X (1..Len(particules)) :
        j \in DOMAIN Val(animationBucket)[i] /\ Val(animationBucket)[i][j] = k}
\* the total number of entries of the buckets
RECURSIVE C27_Entries(_)
C27_Entries(i) ==
    IF i = 0 THEN 0 ELSE Len(Val(animationBucket)[i]) + C27_Entries(i - 1)

\* C27: when evolve has run, every particle of the pool is in exactly one
\* bucket exactly once, no bucket holds anything that is not in the pool,
\* and the buckets have as many entries as the pool has particles.
C27_BucketsRebuiltEveryFrame ==
    (pc = "evolve" /\ cursor > Len(particules))
    => /\ \A k \in DOMAIN particules : Cardinality(C27_Places(k)) = 1
       /\ \A i \in DOMAIN Val(animationBucket) :
              \A j \in DOMAIN Val(animationBucket)[i] :
                  Val(animationBucket)[i][j] \in DOMAIN particules
       /\ C27_Entries(Len(Val(animationBucket))) = Len(particules)

\* evolve has bucketed a pool of at least two particles
C27_Witness ==
    /\ pc = "evolve"
    /\ cursor > Len(particules)
    /\ Len(particules) >= 2
    /\ lastOp.name = "evolve"

\* C28: in wave mode the number of offset segments of a particle is a
\* non-decreasing step function of its waveHeight: 4 below 0.5 (also for 0
\* and for an undefined waveHeight, taken as the lowest), 14 from 30 on; the
\* offsets are that many values, symmetric around 0 and 1 apart.
C28_WaveSegments ==
    lastOp.name = "drawWaves"
    => LET w == lastOp.out.waveHeight
           offsets == lastOp.out.offsets
           n == Len(offsets)
           Below(a, b) == a = None \/ (b # None /\ ~RLess(Val(b), Val(a)))
       IN  /\ (w = None \/ RLess(Val(w), <<1, 2>>)) => n = 4
           /\ (w # None /\ ~RLess(Val(w), <<30, 1>>)) => n = 14
           /\ \A w2 \in WaveHeights :
                  Below(w, w2) => n <= Len(Windy_waveOffsets(w2))
           /\ \A t \in DOMAIN offsets :
                  /\ offsets[t][2] = offsets[n + 1 - t][2]
                  /\ offsets[t][1] = -offsets[n + 1 - t][1]
           /\ \A t \in 2..n : RSub(offsets[t], offsets[t - 1]) = <<1, 1>>


(***************************************************************************)
(* Properties of the layer's gestures                                      *)
(***************************************************************************)
\* the dragstart or zoomstart handler of the layer stopped the engine in the
\* gesture under way and nothing has started it since
C30_StoppedByGesture == gesture # "none" /\ mapEvents /\ phase = "Stopped"

\* C30: between dragstart (zoomstart) and the matching dragend (zoomend) the
\* engine stays stopped: no step of that interval calls Windy.start and no
\* tick runs frame, evolve or draw, whatever redraws and display timeouts
\* were issued before the gesture.
C30_StoppedDuringGesture ==
    [][(C30_StoppedByGesture /\ gesture' = gesture)
       => /\ phase' # "Running"
          /\ lastOp'.name \notin {"frame", "frameWork", "evolve", "throw", "draw"}]_vars

\* C31: from onRemove until the layer is added again the display timeout is
\* cleared, the map's handlers are unbound, the canvas layer's map reference
\* is cleared, no step calls Windy.start and none calls onDrawLayer (whose
\* call on a destroyed layer would construct the engine or arm the timeout).
C31_NothingAfterRemove ==
    [][~onMap'
       => /\ ~displayTimeout'
          /\ ~mapEvents'
          /\ ~canvasMap'
          /\ ~windy'
          /\ ~onMap => (~lastOp'.started /\ phase' # "Running")]_vars

\* onRemove has just destroyed an engine while the canvas layer's deferred
\* onLayerDidMove is still to fire
C31_Witness ==
    /\ ~onMap
    /\ lastOp.name = "handler"
    /\ lastOp.stopped
    /\ context
    /\ deferredMove

\* C32: on an initialized layer the engine's settings are those of the
\* layer's merged options: setOptions(partial) leaves every setting the
\* partial options do not name as it was and gives the named ones their new
\* value, so the engine is configured as one handed the merged options.
C32_EngineMatchesMergedOptions ==
    windy => WindyOptionFields = SetOptionsFields(WindyOptionInit, options)

====
